---- MODULE Spec2Model ----
(***************************************************************************)
(* CoinButlerV3: position and risk ledger (risk_manager.py), exchange      *)
(* client outcomes (trade_utils.py), notifier (notifier.py), daily         *)
(* liquidation job (scheduler.py), configuration store                     *)
(* (config_manager.py) and the engine's control loop (trade_bot.py).       *)
(*                                                                         *)
(* Money and prices are integers; the code's float comparisons of rates    *)
(* are modelled exactly (cross-multiplied), rates are in hundredths        *)
(* (profit_rate 0.03 is 3).                                                *)
(***************************************************************************)
EXTENDS Integers, Sequences, FiniteSets, TLC

\* ---------------------------------------------------------------- bounds
MaxDay == 2
MaxTrades == 4
MaxOrders == 3
MaxClock == 3
MaxTime == 6

\* --------------------------------------------------- program constants
\* MAX_POSITIONS environment value read by get_risk_manager
max_positions == 2

\* ------------------------------------------------------------- domains
Markets == {"KRW-A", "KRW-B", "KRW-C"}
Prices == {100, 103}
Qtys == {2}
Dates == 1..MaxDay
RateDen == 100
SellPrices == 96..106
ProfitRates == {3, 5}
LossRates == {-2, -5}

VARIABLES
    positions,        \* RiskManager.positions: market -> Position
    positions_file,   \* positions.json
    trade_history,    \* trade_history.csv rows
    daily_pnl,        \* daily_pnl.json: date -> realized P&L
    today,            \* date.today()
    last_call,        \* the last ledger call and what it returned
    sell_check,       \* what the last direct should_sell call saw and returned
    balance,          \* exchange: coin balance per market
    notifier_on,      \* notifier._notifier is not None
    last_notify,      \* the last notify_* call and how it ended
    sent,             \* kinds of messages handed to send_message_sync
    job_pc,           \* scheduler thread: position in _daily_sell_all_positions
    job_todo,         \* open_positions still to iterate
    job_start,        \* open_positions at the job's start
    job_closed,       \* markets whose position the job left closed
    job_sold,         \* markets the job placed a sell order for
    job_zero,         \* markets the job found no holdings for
    job_allok,        \* every lookup and order of the job succeeded so far
    config,           \* engine process: ConfigManager.config
    config_file,      \* bot_config.json
    is_running,       \* CoinButler.is_running
    is_paused,        \* CoinButler.is_paused
    loop_pc,          \* control thread: position in _main_loop
    settings,         \* the settings dict of the current iteration
    loop_todo,        \* _manage_positions: open_positions still to iterate
    ctl_orders,       \* orders placed by the control loop
    sched_exists,     \* scheduler module: _scheduler is not None
    sched_running,    \* TradingScheduler.is_running
    sched_jobs,       \* number of jobs registered with the schedule library
    sched_missed,     \* an 08:00 passed while running and no job was due
    sched_threads,    \* threads inside _run_scheduler that have not returned
    store_config,     \* Dashboard process: ConfigManager.config
    store_clock,      \* datetime.now() as seen by the configuration store
    store_last,       \* the last configuration store call and what it returned
    rl_now,           \* time.time(), in ticks
    last_call_time,   \* upbit_rate_limiter.last_call_time
    rl_releases,      \* times of the last two returns of wait_if_needed
    client,           \* per thread: the exchange call in progress
    dash_pc,          \* Dashboard process: position in _sync_with_upbit
    dash_read,        \* Dashboard process: trade_history.csv as read into memory
    mgr_is_running,   \* CoinButlerManager.is_running
    bot_process,      \* CoinButlerManager.bot_process and the state of that child
    dashboard_process,\* CoinButlerManager.dashboard_process and the state of that child
    mgr_pc,           \* supervisor process: position in main / start_all / monitor
    spawn_fails,      \* how many child starts have failed so far
    child_deaths,     \* how many children have died unexpectedly so far
    mgr_restarts,     \* how many starts monitor() has made that succeeded
    ai_rows,          \* ai_recommendations table, row i has id i
    validated,        \* Dashboard settings form: the config last validated, and the errors
    sync_status,      \* Dashboard: the last sync analysis, with the maps it was given
    rebalance,        \* control thread: what the last _execute_rebalancing did
    thr,              \* per thread: where it is in selling one position, and its locals
    sell_orders,      \* per market: sell orders the exchange has accepted
    pnl_local,        \* per thread: _update_daily_pnl's data as read, and the amount to add
    scan,             \* the last new-opportunity scan: what it was given and what it chose
    sizing,           \* the last _execute_buy sizing: what it read and what it ordered
    wall              \* datetime.now() of the engine process, in hours

ledgerVars == <<positions, positions_file, trade_history, daily_pnl, today, last_call,
               sell_check>>
notifyVars == <<notifier_on, last_notify, sent>>
jobVars == <<job_pc, job_todo, job_start, job_closed, job_sold, job_zero, job_allok>>
engineVars == <<config, config_file, is_running, is_paused, loop_pc, settings, loop_todo, ctl_orders>>
schedVars == <<sched_exists, sched_running, sched_jobs, sched_missed, sched_threads>>
storeVars == <<store_config, store_clock, store_last>>
clientVars == <<rl_now, last_call_time, rl_releases, client>>
dashVars == <<dash_pc, dash_read>>
mgrVars == <<mgr_is_running, bot_process, dashboard_process, mgr_pc, spawn_fails,
             child_deaths, mgr_restarts>>
aiVars == <<ai_rows>>
valVars == <<validated, sync_status>>
rebVars == <<rebalance>>
pickVars == <<scan, sizing>>
timeVars == <<wall>>
raceVars == <<thr, sell_orders, pnl_local>>
moreVars == <<mgrVars, aiVars, valVars, rebVars, pickVars, timeVars, raceVars>>
\* everything outside the engine process and its tracker
nonTrackerVars == <<schedVars, storeVars, clientVars, dashVars, mgrVars, valVars, rebVars, pickVars, timeVars, raceVars>>
extVars == <<schedVars, storeVars, clientVars, dashVars, moreVars>>
coreVars == <<ledgerVars, balance, notifyVars, jobVars, engineVars, schedVars, storeVars,
              clientVars, dashVars>>
vars == <<positions, positions_file, trade_history, daily_pnl, today, last_call,
          sell_check,
          balance, notifier_on, last_notify, sent,
          job_pc, job_todo, job_start, job_closed, job_sold, job_zero, job_allok,
          config, config_file, is_running, is_paused, loop_pc, settings,
          loop_todo, ctl_orders, extVars>>

\* ------------------------------------------------------------ Position
NoPos == [status |-> "none", entry_price |-> 0, quantity |-> 0, entry_time |-> 0,
          investment_amount |-> 0]

\* Position.__init__: a new position is open
Position(entry_price, quantity, entry_time, investment_amount) ==
    [status |-> "open", entry_price |-> entry_price, quantity |-> quantity,
     entry_time |-> entry_time, investment_amount |-> investment_amount]

\* datetime.now()
now == wall

calculate_current_pnl(pos, current_price) ==
    pos.quantity * current_price - pos.investment_amount

\* pnl_rate = pnl / investment_amount * 100, compared with rate * 100
\* (rate in hundredths): pnl_rate >= rate*100  <=>  pnl*RateDen >= rate*inv
pnl_rate_ge(pos, current_price, rate) ==
    calculate_current_pnl(pos, current_price) * 100 * RateDen
        >= rate * 100 * pos.investment_amount

\* faulty variant: the stop-loss comparison is strict
pnl_rate_le_strict(pos, current_price, rate) ==
    calculate_current_pnl(pos, current_price) * 100 * RateDen
        < rate * 100 * pos.investment_amount

pnl_rate_le(pos, current_price, rate) ==
    calculate_current_pnl(pos, current_price) * 100 * RateDen
        <= rate * 100 * pos.investment_amount

\* Position.close_position: status closed (exit fields are never read again)
ClosedPos(pos) == [pos EXCEPT !.status = "closed"]

\* -------------------------------------------------------------- ledger
get_open_positions(ps) == {m \in Markets : ps[m].status = "open"}

OpenCount == Cardinality(get_open_positions(positions))

\* faulty variant: the cap test admits one position too many
can_open_position_inclusive(ps) == Cardinality(get_open_positions(ps)) <= max_positions

can_open_position(ps) == Cardinality(get_open_positions(ps)) < max_positions

\* faulty variant: closed positions are written too
SavedFile_every_status(ps) == [m \in Markets |-> ps[m]]

\* _save_positions_to_file: only open positions are written
SavedFile(ps) == [m \in Markets |-> IF ps[m].status = "open" THEN ps[m] ELSE NoPos]

get_daily_pnl(dp, day) == dp[day]

\* faulty variant: the day's entry is overwritten instead of accumulated
UpdatedDailyPnl_overwrite(dp, day, profit_loss) == [dp EXCEPT ![day] = profit_loss]

\* _update_daily_pnl: data[today] = data.get(today, 0.0) + profit_loss
UpdatedDailyPnl(dp, day, profit_loss) == [dp EXCEPT ![day] = dp[day] + profit_loss]

\* _record_trade: one row appended to trade_history.csv
TradeRow(market, action, price, quantity, profit_loss, dp, day) ==
    [date |-> day, market |-> market, action |-> action, price |-> price,
     quantity |-> quantity, profit_loss |-> profit_loss,
     cumulative_pnl |-> get_daily_pnl(dp, day) + profit_loss]

\* the ledger state as one record, so that operations compose
Ledger == [positions |-> positions, file |-> positions_file,
           history |-> trade_history, daily |-> daily_pnl]

\* add_position: returns [ok, ledger]
add_position(L, day, market, entry_price, quantity, investment_amount) ==
    IF ~can_open_position(L.positions) THEN [ok |-> FALSE, L |-> L]
    ELSE IF L.positions[market].status = "open" THEN [ok |-> FALSE, L |-> L]
    ELSE LET ps == [L.positions EXCEPT ![market] =
                        Position(entry_price, quantity, now, investment_amount)]
         IN [ok |-> TRUE,
             L |-> [positions |-> ps,
                    file |-> SavedFile(ps),
                    history |-> Append(L.history,
                        TradeRow(market, "BUY", entry_price, quantity, 0, L.daily, day)),
                    daily |-> L.daily]]

\* faulty variant: only a market never seen is refused, so a closed position
\* can be closed again
close_position_reclosing(L, day, market, exit_price) ==
    IF L.positions[market].status = "none" THEN [ok |-> FALSE, value |-> 0, L |-> L]
    ELSE LET pos == L.positions[market]
             profit_loss == calculate_current_pnl(pos, exit_price)
             ps == [L.positions EXCEPT ![market] = ClosedPos(pos)]
         IN [ok |-> TRUE, value |-> profit_loss,
             L |-> [positions |-> ps,
                    file |-> SavedFile(ps),
                    history |-> Append(L.history,
                        TradeRow(market, "SELL", exit_price, pos.quantity,
                                 profit_loss, L.daily, day)),
                    daily |-> UpdatedDailyPnl(L.daily, day, profit_loss)]]

\* close_position: returns [ok, value, ledger]; ok FALSE is the None return
close_position(L, day, market, exit_price) ==
    IF L.positions[market].status # "open" THEN [ok |-> FALSE, value |-> 0, L |-> L]
    ELSE LET pos == L.positions[market]
             profit_loss == calculate_current_pnl(pos, exit_price)
             ps == [L.positions EXCEPT ![market] = ClosedPos(pos)]
         IN [ok |-> TRUE, value |-> profit_loss,
             L |-> [positions |-> ps,
                    file |-> SavedFile(ps),
                    history |-> Append(L.history,
                        TradeRow(market, "SELL", exit_price, pos.quantity,
                                 profit_loss, L.daily, day)),
                    daily |-> UpdatedDailyPnl(L.daily, day, profit_loss)]]

\* close_position after its test of the status: the position object is closed,
\* the SELL row written, the daily P&L updated and the file saved
close_position_act(L, day, market, exit_price) ==
    LET pos == L.positions[market]
        profit_loss == calculate_current_pnl(pos, exit_price)
        ps == [L.positions EXCEPT ![market] = ClosedPos(pos)]
    IN [positions |-> ps,
        file |-> SavedFile(ps),
        history |-> Append(L.history,
            TradeRow(market, "SELL", exit_price, pos.quantity,
                     profit_loss, L.daily, day)),
        daily |-> UpdatedDailyPnl(L.daily, day, profit_loss)]

\* get_position_pnl is None unless the position is open
has_position_pnl(ps, market) == ps[market].status = "open"

\* should_sell: [sell, reason]
should_sell(ps, market, current_price, profit_rate, loss_rate) ==
    IF ~has_position_pnl(ps, market) THEN [sell |-> FALSE, reason |-> ""]
    ELSE IF pnl_rate_ge(ps[market], current_price, profit_rate)
         THEN [sell |-> TRUE, reason |-> "take_profit"]
    ELSE IF pnl_rate_le(ps[market], current_price, loss_rate)
         THEN [sell |-> TRUE, reason |-> "stop_loss"]
    ELSE [sell |-> FALSE, reason |-> ""]

\* what a should_sell call saw and returned
SellCheck(ps, market, current_price, profit_rate, loss_rate) ==
    [market |-> market, price |-> current_price, profit_rate |-> profit_rate,
     loss_rate |-> loss_rate, open |-> has_position_pnl(ps, market),
     entry_price |-> ps[market].entry_price,
     sell |-> should_sell(ps, market, current_price, profit_rate, loss_rate).sell,
     reason |-> should_sell(ps, market, current_price, profit_rate, loss_rate).reason]

NoSellCheck ==
    [market |-> "", price |-> 0, profit_rate |-> 0, loss_rate |-> 0, open |-> FALSE,
     entry_price |-> 0, sell |-> FALSE, reason |-> ""]

\* faulty variant: a day's P&L exactly at the limit does not count
check_daily_loss_limit_strict(dp, day, daily_loss_limit) ==
    get_daily_pnl(dp, day) + 0 < daily_loss_limit

\* check_daily_loss_limit: realized P&L only
check_daily_loss_limit(dp, day, daily_loss_limit) ==
    get_daily_pnl(dp, day) + 0 <= daily_loss_limit

SetLedger(L) ==
    /\ positions' = L.positions
    /\ positions_file' = L.file
    /\ trade_history' = L.history
    /\ daily_pnl' = L.daily

RoomInHistory == Len(trade_history) < MaxTrades

\* ------------------------------------------------------ ledger actions
\* a caller adds a position; the engine passes investment = volume * price
AddPosition(market, price, qty) ==
    /\ UNCHANGED extVars
    /\ RoomInHistory
    /\ LET r == add_position(Ledger, today, market, price, qty, qty * price)
       IN /\ SetLedger(r.L)
          /\ last_call' = [op |-> "add_position", ok |-> r.ok]
    /\ UNCHANGED <<today, sell_check, balance, notifyVars, jobVars, engineVars>>

ClosePosition(market, price) ==
    /\ UNCHANGED extVars
    /\ RoomInHistory
    /\ LET r == close_position(Ledger, today, market, price)
       IN /\ SetLedger(r.L)
          /\ last_call' = [op |-> "close_position", ok |-> r.ok]
    /\ UNCHANGED <<today, sell_check, balance, notifyVars, jobVars, engineVars>>

\* a caller asks should_sell (the engine does so for every open position)
ShouldSell(market, price, profit_rate, loss_rate) ==
    /\ UNCHANGED extVars
    /\ sell_check' = SellCheck(positions, market, price, profit_rate, loss_rate)
    /\ UNCHANGED <<positions, positions_file, trade_history, daily_pnl, today,
                   last_call, balance, notifyVars, jobVars, engineVars>>

\* RiskManager.__init__ -> _restore_positions_from_file: the process is
\* started again and the ledger is rebuilt from the open entries of the file
\* faulty variant: every entry of the file becomes a position, whatever its
\* status
restore_positions_from_file_any_status(file) ==
    [m \in Markets |-> Position(file[m].entry_price, file[m].quantity,
                                file[m].entry_time, file[m].investment_amount)]

restore_positions_from_file(file) ==
    [m \in Markets |-> IF file[m].status = "open"
                        THEN Position(file[m].entry_price, file[m].quantity,
                                      file[m].entry_time, file[m].investment_amount)
                        ELSE NoPos]

Restart ==
    /\ UNCHANGED extVars
    /\ positions' = restore_positions_from_file(positions_file)
    /\ last_call' = [op |-> "init", ok |-> TRUE]
    /\ UNCHANGED <<positions_file, trade_history, daily_pnl, today, sell_check,
                   balance, notifyVars, jobVars, engineVars>>

\* local midnight: date.today() moves on
Midnight ==
    /\ UNCHANGED extVars
    /\ today < MaxDay
    /\ today' = today + 1
    /\ UNCHANGED <<positions, positions_file, trade_history, daily_pnl, last_call,
                   sell_check, balance, notifyVars, jobVars, engineVars>>

\* ------------------------------------------------------------ exchange
NoPrice == 0          \* get_current_price returned None or 0
PriceRaises == -1     \* get_current_price raised after its retries
PriceOutcomes == Prices \cup {NoPrice, PriceRaises}
AvgBuyPrices == Prices \cup {0}

\* get_accounts: the coin records with a balance, [] when the request fails
get_accounts(bal, acc_ok) == IF acc_ok THEN {m \in Markets : bal[m] > 0} ELSE {}

\* get_coin_balance: 0.0 when the coin is not among the accounts
get_coin_balance(bal, acc_ok, market) ==
    IF market \in get_accounts(bal, acc_ok) THEN bal[market] ELSE 0

\* the exchange account changes (orders filled, manual trades, deposits)
ExchangeChange(market, qty) ==
    /\ UNCHANGED extVars
    /\ balance[market] # qty
    /\ balance' = [balance EXCEPT ![market] = qty]
    /\ UNCHANGED <<ledgerVars, notifyVars, jobVars, engineVars>>

\* _execute_buy with a filled order: the coins arrive and the fill is recorded
Bought(market, avg_price, executed_volume) ==
    /\ UNCHANGED extVars
    /\ RoomInHistory
    /\ balance' = [balance EXCEPT ![market] = executed_volume]
    /\ LET r == add_position(Ledger, today, market, avg_price, executed_volume,
                             executed_volume * avg_price)
       IN /\ SetLedger(r.L)
          /\ last_call' = [op |-> "add_position", ok |-> r.ok]
    /\ UNCHANGED <<today, sell_check, notifyVars, jobVars, engineVars>>

\* ----------------------------------- exchange client: limiter and retry
Threads == {"control", "scheduler"}

\* RateLimiter.call_interval (1/8 s), in ticks
call_interval == 2

\* api_retry(max_retries=3, ...)
max_retries == 3

\* get_current_price and get_candles are wrapped by api_retry; the order
\* calls are not
WrappedKinds == {"price", "candles"}
CallKinds == WrappedKinds \cup {"order"}

\* how one HTTP request ends
RequestOutcomes == {"ok", "http429", "http5xx", "error"}

IdleCall == [pc |-> "idle", kind |-> "", attempt |-> 0, wake |-> 0, requests |-> 0,
             result |-> ""]

\* a thread enters a client method; a wrapped one enters the retry loop
CallBegin(t, kind) ==
    /\ client[t].pc \in {"idle", "done"}
    /\ client' = [client EXCEPT ![t] =
                     [IdleCall EXCEPT !.kind = kind,
                                      !.pc = IF kind \in WrappedKinds THEN "limiter"
                                             ELSE "request"]]
    /\ UNCHANGED <<rl_now, last_call_time, rl_releases, schedVars, storeVars, dashVars,
                   ledgerVars, balance, notifyVars, jobVars, engineVars, moreVars>>

\* wait_if_needed, first part: the clock and last_call_time are read and
\* the remaining interval is computed
LimiterRead(t) ==
    /\ client[t].pc = "limiter"
    /\ client' = [client EXCEPT ![t] =
                     IF rl_now - last_call_time < call_interval
                     THEN [@ EXCEPT !.pc = "sleeping",
                                    !.wake = rl_now + (call_interval
                                                       - (rl_now - last_call_time))]
                     ELSE [@ EXCEPT !.pc = "stamp"]]
    /\ UNCHANGED <<rl_now, last_call_time, rl_releases, schedVars, storeVars, dashVars,
                   ledgerVars, balance, notifyVars, jobVars, engineVars, moreVars>>

\* time.sleep(wait_time) is over
LimiterWake(t) ==
    /\ client[t].pc = "sleeping"
    /\ rl_now >= client[t].wake
    /\ client' = [client EXCEPT ![t].pc = "stamp"]
    /\ UNCHANGED <<rl_now, last_call_time, rl_releases, schedVars, storeVars, dashVars,
                   ledgerVars, balance, notifyVars, jobVars, engineVars, moreVars>>

\* wait_if_needed, last line: last_call_time = time.time(), then return
LimiterStamp(t) ==
    /\ client[t].pc = "stamp"
    /\ last_call_time' = rl_now
    /\ rl_releases' = IF Len(rl_releases) < 2 THEN Append(rl_releases, rl_now)
                      ELSE <<rl_releases[2], rl_now>>
    /\ client' = [client EXCEPT ![t].pc = "request"]
    /\ UNCHANGED <<rl_now, schedVars, storeVars, dashVars, ledgerVars, balance, notifyVars,
                   jobVars, engineVars, moreVars>>

\* the wrapper's handling of one attempt's outcome: "value" ends the call,
\* "retry" sleeps and loops, "raised" re-raises
retry_step(outcome, attempt) ==
    IF outcome = "ok" THEN "value"
    ELSE IF outcome = "http429"
         THEN IF attempt < max_retries - 1 THEN "retry" ELSE "raised"
    ELSE IF outcome = "http5xx" THEN "raised"
    ELSE IF attempt < max_retries - 1 THEN "retry" ELSE "raised"

\* place_buy_order / place_sell_order: one request inside try/except
order_step(outcome) == IF outcome = "ok" THEN "value" ELSE "none"

\* the HTTP request of the current attempt and what the method does with it
Request(t, outcome) ==
    /\ client[t].pc = "request"
    /\ LET step == IF client[t].kind \in WrappedKinds
                   THEN retry_step(outcome, client[t].attempt)
                   ELSE order_step(outcome)
       IN client' = [client EXCEPT ![t] =
                        IF step = "retry"
                        THEN [@ EXCEPT !.pc = "backoff", !.requests = @ + 1]
                        ELSE [@ EXCEPT !.pc = "done", !.requests = @ + 1,
                                       !.result = step]]
    /\ UNCHANGED <<rl_now, last_call_time, rl_releases, schedVars, storeVars, dashVars,
                   ledgerVars, balance, notifyVars, jobVars, engineVars, moreVars>>

\* the back-off sleep is over: next attempt
BackoffDone(t) ==
    /\ client[t].pc = "backoff"
    /\ client' = [client EXCEPT ![t] = [@ EXCEPT !.pc = "limiter", !.attempt = @ + 1]]
    /\ UNCHANGED <<rl_now, last_call_time, rl_releases, schedVars, storeVars, dashVars,
                   ledgerVars, balance, notifyVars, jobVars, engineVars, moreVars>>

\* time passes
Tick ==
    /\ rl_now < MaxTime
    /\ rl_now' = rl_now + 1
    /\ UNCHANGED <<last_call_time, rl_releases, client, schedVars, storeVars, dashVars,
                   ledgerVars, balance, notifyVars, jobVars, engineVars, moreVars>>

\* ------------------------------------------------- restore from exchange
BuyRows(history, market) ==
    {i \in 1..Len(history) : history[i].market = market /\ history[i].action = "BUY"}

\* _estimate_entry_price_from_history: price of the latest BUY row, 0 for None
estimate_entry_price_from_history(history, market) ==
    IF BuyRows(history, market) = {} THEN 0
    ELSE LET last == CHOOSE i \in BuyRows(history, market) :
                        \A j \in BuyRows(history, market) : j <= i
         IN history[last].price

\* the entry-price cascade of restore_positions_from_upbit
restored_entry_price(history, ps, market, avg_buy_price, current_price) ==
    IF estimate_entry_price_from_history(history, market) # 0
        THEN estimate_entry_price_from_history(history, market)
    ELSE IF avg_buy_price > 0 THEN avg_buy_price
    ELSE IF ps[market].status # "none" /\ ps[market].entry_price # 0
        THEN ps[market].entry_price
    ELSE current_price

\* restore_positions_from_upbit: the ledger afterwards.  pf, af give the
\* current price and avg_buy_price answered for each account record.
restore_positions_from_upbit(L, bal, acc_ok, pf, af) ==
    LET accounts == get_accounts(bal, acc_ok)
    IN IF \E m \in accounts : pf[m] = PriceRaises
       THEN L       \* the exception is caught and logged, nothing is replaced
       ELSE LET restored == [m \in Markets |->
                    IF m \in accounts /\ pf[m] # NoPrice
                    THEN LET e == restored_entry_price(L.history, L.positions, m, af[m], pf[m])
                         IN Position(e, bal[m], now, e * bal[m])
                    ELSE NoPos]
            IN [L EXCEPT !.positions = restored, !.file = SavedFile(restored)]

\* force_sync_with_upbit: backup, clear, restore; the backup is put back
\* only in the except branch, which restore's own try/except never lets run
force_sync_with_upbit(L, bal, acc_ok, pf, af) ==
    LET cleared == [L EXCEPT !.positions = [m \in Markets |-> NoPos]]
    IN restore_positions_from_upbit(cleared, bal, acc_ok, pf, af)

Held == {m \in Markets : balance[m] > 0}

\* CoinButler.start -> _restore_existing_positions
RestoreFromUpbit(acc_ok, pf, af) ==
    /\ UNCHANGED extVars
    /\ SetLedger(restore_positions_from_upbit(Ledger, balance, acc_ok, pf, af))
    /\ last_call' = [op |-> "restore", ok |-> acc_ok]
    /\ UNCHANGED <<today, sell_check, balance, notifyVars, jobVars, engineVars>>

ForceSync(acc_ok, pf, af) ==
    /\ UNCHANGED extVars
    /\ SetLedger(force_sync_with_upbit(Ledger, balance, acc_ok, pf, af))
    /\ last_call' = [op |-> "force_sync", ok |-> TRUE]
    /\ UNCHANGED <<today, sell_check, balance, notifyVars, jobVars, engineVars>>

\* --------------------------------------- Dashboard: sync with exchange
\* investment recorded for a synced holding whose average price is unknown
fallback_investment == 300

\* _sync_with_upbit: the entry written to positions.json for one holding
synced_position(file, market, quantity, avg_buy_price) ==
    IF file[market].status # "none"
    THEN [file[market] EXCEPT !.quantity = quantity,
                              !.entry_price = IF avg_buy_price > 0 THEN avg_buy_price
                                              ELSE file[market].entry_price,
                              !.status = "open"]
    ELSE [status |-> "open",
          entry_price |-> IF avg_buy_price > 0 THEN avg_buy_price ELSE 0,
          quantity |-> quantity,
          investment_amount |-> IF avg_buy_price > 0 THEN quantity * avg_buy_price
                                ELSE fallback_investment]

\* _record_manual_sync: one SYNC row per holding, in dict order
RECURSIVE sync_records(_, _, _, _)
sync_records(markets, bal, af, day) ==
    IF markets = {} THEN <<>>
    ELSE LET m == CHOOSE x \in markets : TRUE
         IN <<[date |-> day, market |-> m, action |-> "SYNC", price |-> af[m],
               quantity |-> bal[m], profit_loss |-> 0, cumulative_pnl |-> 0]>>
            \o sync_records(markets \ {m}, bal, af, day)

\* _sync_with_upbit up to the point where _record_manual_sync has read
\* trade_history.csv: positions.json is rewritten from the holdings
DashSyncBegin(af) ==
    /\ dash_pc = "idle"
    /\ Held # {}
    /\ Len(trade_history) + Cardinality(Held) <= MaxTrades
    /\ positions_file' = [m \in Markets |->
                             IF m \in Held
                             THEN synced_position(positions_file, m, balance[m], af[m])
                             ELSE NoPos]
    /\ dash_read' = trade_history \o sync_records(Held, balance, af, today)
    /\ dash_pc' = "recording"
    /\ UNCHANGED <<positions, trade_history, daily_pnl, today, last_call, sell_check,
                   balance, notifyVars, jobVars, engineVars, schedVars, storeVars,
                   clientVars, moreVars>>

\* _record_manual_sync, last part: the combined frame is written over
\* trade_history.csv
DashSyncEnd ==
    /\ dash_pc = "recording"
    /\ trade_history' = dash_read
    /\ dash_pc' = "idle"
    /\ UNCHANGED <<dash_read, positions, positions_file, daily_pnl, today, last_call,
                   sell_check, balance, notifyVars, jobVars, engineVars, schedVars,
                   storeVars, clientVars, moreVars>>

\* ------------------------------------------- Dashboard: sync analysis
\* quantities in units of 0.001 coin
SyncTolerance == 1
SyncQuantities == {2000, 2001, 2002}
SyncMarkets == {"KRW-A", "KRW-B"}

\* the maps the analysis is given: market -> quantity, for some markets
QuantityMaps ==
    UNION {[ms -> SyncQuantities] : ms \in SUBSET SyncMarkets}

Abs(x) == IF x < 0 THEN -x ELSE x

\* one loop of the analysis: a difference appended per market of the set
RECURSIVE differences_of(_, _, _, _)
differences_of(type, markets, positions_data, actual_upbit_balances) ==
    IF markets = {} THEN <<>>
    ELSE LET m == CHOOSE x \in markets : TRUE
         IN <<[type |-> type, market |-> m,
               bot_amount |-> IF m \in DOMAIN positions_data
                              THEN positions_data[m] ELSE 0,
               upbit_amount |-> IF m \in DOMAIN actual_upbit_balances
                                THEN actual_upbit_balances[m] ELSE 0]>>
            \o differences_of(type, markets \ {m}, positions_data, actual_upbit_balances)

\* faulty variant: a difference of exactly the tolerance is a mismatch
analyze_balance_sync_at_tolerance(actual_upbit_balances, positions_data) ==
    LET P == DOMAIN positions_data
        B == DOMAIN actual_upbit_balances
        differences ==
            differences_of("missing_in_upbit", P \ B, positions_data, actual_upbit_balances)
            \o differences_of("missing_in_bot", B \ P, positions_data, actual_upbit_balances)
            \o differences_of("quantity_mismatch",
                   {m \in P \cap B :
                       Abs(positions_data[m] - actual_upbit_balances[m]) >= SyncTolerance},
                   positions_data, actual_upbit_balances)
    IN [is_synced |-> differences = <<>>, differences |-> differences,
        needs_sync |-> differences # <<>>, total_differences |-> Len(differences)]

\* _analyze_balance_sync
analyze_balance_sync(actual_upbit_balances, positions_data) ==
    LET P == DOMAIN positions_data
        B == DOMAIN actual_upbit_balances
        differences ==
            differences_of("missing_in_upbit", P \ B, positions_data, actual_upbit_balances)
            \o differences_of("missing_in_bot", B \ P, positions_data, actual_upbit_balances)
            \o differences_of("quantity_mismatch",
                   {m \in P \cap B :
                       Abs(positions_data[m] - actual_upbit_balances[m]) > SyncTolerance},
                   positions_data, actual_upbit_balances)
    IN [is_synced |-> differences = <<>>, differences |-> differences,
        needs_sync |-> differences # <<>>, total_differences |-> Len(differences)]

\* get_system_status calls the analysis with the balances and positions read
AnalyzeBalanceSync(actual_upbit_balances, positions_data) ==
    /\ sync_status' = [balances |-> actual_upbit_balances, positions |-> positions_data,
                       result |-> analyze_balance_sync(actual_upbit_balances,
                                                       positions_data)]
    /\ UNCHANGED <<validated, mgrVars, aiVars, rebVars, pickVars, timeVars, raceVars, coreVars>>

\* ------------------------------------------------ supervisor (main.py)
MaxSpawnFail == 1
MaxDeaths == 3

\* start_bot: a Process object is assigned, then started; a failing start
\* leaves the object that was never started
start_bot(ok) == IF ok THEN "alive" ELSE "unstarted"

\* start_dashboard: Popen either returns a running child or raises before
\* dashboard_process is assigned
start_dashboard(dp, ok) == IF ok THEN "alive" ELSE dp

\* is_alive() / poll() is None
child_alive(proc) == proc = "alive"

\* faulty variant: the flag is cleared and the children are left alone
stop_all_flag_only(bp, dp) == [bot |-> bp, dash |-> dp, running |-> FALSE]

\* stop_all: terminate (then kill) each child that is alive, clear the flag
stop_all(bp, dp) ==
    [bot |-> IF child_alive(bp) THEN "dead" ELSE bp,
     dash |-> IF child_alive(dp) THEN "dead" ELSE dp,
     running |-> FALSE]

\* a start may fail only a bounded number of times
SpawnOutcomes == IF spawn_fails < MaxSpawnFail THEN BOOLEAN ELSE {TRUE}

Spawned(ok) == spawn_fails' = IF ok THEN spawn_fails ELSE spawn_fails + 1

\* start_all up to the 3 s wait: the bot is started
StartAllBot(ok) ==
    /\ mgr_pc = "main"
    /\ ~mgr_is_running
    /\ bot_process' = start_bot(ok)
    /\ Spawned(ok)
    /\ mgr_pc' = IF ok THEN "bot_started" ELSE "bot_failed"
    /\ UNCHANGED <<mgr_is_running, dashboard_process, child_deaths, mgr_restarts, aiVars, valVars, rebVars, pickVars, timeVars, raceVars, coreVars>>

\* start_all after the wait: the dashboard is started, then either the flag
\* is set or stop_all runs; main() enters monitor() only when the flag is set
StartAllDashboard(ok) ==
    /\ mgr_pc \in {"bot_started", "bot_failed"}
    /\ Spawned(ok)
    /\ LET dp == start_dashboard(dashboard_process, ok)
           success == mgr_pc = "bot_started" /\ ok
           r == stop_all(bot_process, dp)
       IN IF success
          THEN /\ mgr_is_running' = TRUE
               /\ dashboard_process' = dp
               /\ mgr_pc' = "check_bot"
               /\ UNCHANGED bot_process
          ELSE /\ mgr_is_running' = r.running
               /\ bot_process' = r.bot
               /\ dashboard_process' = r.dash
               /\ mgr_pc' = "exited"
    /\ UNCHANGED <<child_deaths, mgr_restarts, aiVars, valVars, rebVars, pickVars, timeVars, raceVars, coreVars>>

\* a child process ends on its own
ChildDies(child) ==
    /\ child_deaths < MaxDeaths
    /\ child_deaths' = child_deaths + 1
    /\ IF child = "bot"
       THEN /\ child_alive(bot_process)
            /\ bot_process' = "dead"
            /\ UNCHANGED dashboard_process
       ELSE /\ child_alive(dashboard_process)
            /\ dashboard_process' = "dead"
            /\ UNCHANGED bot_process
    /\ UNCHANGED <<mgr_is_running, mgr_pc, spawn_fails, mgr_restarts, aiVars, valVars, rebVars, pickVars, timeVars, raceVars, coreVars>>

\* faulty variant: the dead bot is logged and not started again
MonitorBot_log_only(ok) ==
    /\ mgr_pc = "check_bot"
    /\ mgr_is_running
    /\ ok
    /\ mgr_pc' = "check_dashboard"
    /\ UNCHANGED <<mgr_is_running, bot_process, dashboard_process, spawn_fails,
                   child_deaths, mgr_restarts, aiVars, valVars, rebVars, pickVars, timeVars, raceVars, coreVars>>

\* monitor(), first half of an iteration: the bot is looked at and started
\* again when it is not alive
MonitorBot(ok) ==
    /\ mgr_pc = "check_bot"
    /\ mgr_is_running
    /\ IF bot_process # "none" /\ ~child_alive(bot_process)
       THEN /\ bot_process' = start_bot(ok)
            /\ Spawned(ok)
            /\ mgr_restarts' = IF ok THEN mgr_restarts + 1 ELSE mgr_restarts
       ELSE /\ ok
            /\ UNCHANGED <<bot_process, spawn_fails, mgr_restarts>>
    /\ mgr_pc' = "check_dashboard"
    /\ UNCHANGED <<mgr_is_running, dashboard_process, child_deaths, aiVars, valVars, rebVars, pickVars, timeVars, raceVars, coreVars>>

\* monitor(), second half: the same for the dashboard, then the 30 s sleep
MonitorDashboard(ok) ==
    /\ mgr_pc = "check_dashboard"
    /\ IF dashboard_process # "none" /\ ~child_alive(dashboard_process)
       THEN /\ dashboard_process' = start_dashboard(dashboard_process, ok)
            /\ Spawned(ok)
            /\ mgr_restarts' = IF ok THEN mgr_restarts + 1 ELSE mgr_restarts
       ELSE /\ ok
            /\ UNCHANGED <<dashboard_process, spawn_fails, mgr_restarts>>
    /\ mgr_pc' = "check_bot"
    /\ UNCHANGED <<mgr_is_running, bot_process, child_deaths, aiVars, valVars, rebVars, pickVars, timeVars, raceVars, coreVars>>

\* SIGINT / SIGTERM or KeyboardInterrupt while monitoring: stop_all, exit
Interrupt ==
    /\ mgr_pc \in {"check_bot", "check_dashboard"}
    /\ LET r == stop_all(bot_process, dashboard_process)
       IN /\ mgr_is_running' = r.running
          /\ bot_process' = r.bot
          /\ dashboard_process' = r.dash
    /\ mgr_pc' = "exited"
    /\ UNCHANGED <<spawn_fails, child_deaths, mgr_restarts, aiVars, valVars, rebVars, pickVars, timeVars, raceVars, coreVars>>

\* ------------------------------------------------------------ notifier
NotifyKinds == {"buy", "sell", "info", "error", "bot_status",
                "daily_loss_limit", "volume_spike", "rebalancing"}

\* notify_*: how the call ends.  notify_info calls _notifier.send_message,
\* which TelegramNotifier does not define; every other entry point goes
\* through send_message_sync, which catches the delivery failure.
notify(kind, on, delivered) ==
    IF ~on THEN "skipped"
    ELSE IF kind = "info" THEN "raised"
    ELSE IF delivered THEN "sent" ELSE "send_failed"

Notified(kind, delivered) ==
    /\ last_notify' = [kind |-> kind, outcome |-> notify(kind, notifier_on, delivered)]
    /\ sent' = IF notify(kind, notifier_on, delivered) = "sent"
               THEN sent \cup {kind} ELSE sent
    /\ UNCHANGED notifier_on

\* a caller of the notifier module
NotifyCall(kind, delivered) ==
    /\ UNCHANGED extVars
    /\ Notified(kind, delivered)
    /\ UNCHANGED <<ledgerVars, balance, jobVars, engineVars>>

\* ------------------------------------------- daily liquidation (08:00)
\* _daily_sell_all_positions, first part: the start notice, then the
\* open positions are read.  A raising notify_info leaves the try block;
\* the except block calls notify_info again, which raises out of the job.
JobStart(delivered) ==
    /\ UNCHANGED extVars
    /\ job_pc \in {"idle", "ended"}
    /\ job_start' = get_open_positions(positions)
    /\ job_closed' = {}
    /\ job_sold' = {}
    /\ job_zero' = {}
    /\ job_allok' = TRUE
    /\ Notified("info", delivered)
    /\ IF notify("info", notifier_on, delivered) = "raised"
          \/ get_open_positions(positions) = {}
       THEN job_pc' = "ended" /\ job_todo' = {}
       ELSE job_pc' = "selling" /\ job_todo' = get_open_positions(positions)
    /\ UNCHANGED <<ledgerVars, balance, engineVars>>

\* one iteration of the loop over open_positions
JobSellOne(market, price, acc_ok, sell_ok, delivered) ==
    /\ UNCHANGED extVars
    /\ job_pc = "selling"
    /\ market \in job_todo
    /\ RoomInHistory
    /\ job_todo' = job_todo \ {market}
    /\ job_pc' = "selling"
    /\ UNCHANGED <<job_start, today, sell_check, engineVars>>
    /\ IF price \in {NoPrice, PriceRaises}
       THEN \* skipped: 'continue' after the failed lookup or in the except
            /\ job_allok' = FALSE
            /\ UNCHANGED <<positions, positions_file, trade_history, daily_pnl,
                           last_call, balance, notifyVars, job_closed, job_sold, job_zero>>
       ELSE IF get_coin_balance(balance, acc_ok, market) <= 0
       THEN \* no holdings reported: the position is closed without an order
            LET r == close_position(Ledger, today, market, price)
            IN /\ SetLedger(r.L)
               /\ last_call' = [op |-> "close_position", ok |-> r.ok]
               /\ job_allok' = (job_allok /\ acc_ok)
               /\ job_zero' = job_zero \cup {market}
               /\ job_closed' = job_closed \cup {market}
               /\ UNCHANGED <<balance, notifyVars, job_sold>>
       ELSE IF sell_ok
       THEN LET r == close_position(Ledger, today, market, price)
            IN /\ SetLedger(r.L)
               /\ last_call' = [op |-> "close_position", ok |-> r.ok]
               /\ balance' = [balance EXCEPT ![market] = 0]
               /\ Notified("sell", delivered)
               /\ job_sold' = job_sold \cup {market}
               /\ job_closed' = job_closed \cup {market}
               /\ UNCHANGED <<job_allok, job_zero>>
       ELSE \* place_sell_order returned None
            /\ job_allok' = FALSE
            /\ UNCHANGED <<positions, positions_file, trade_history, daily_pnl,
                           last_call, balance, notifyVars, job_closed, job_sold, job_zero>>

\* after the loop: the summary notice
JobFinish(delivered) ==
    /\ UNCHANGED extVars
    /\ job_pc = "selling"
    /\ job_todo = {}
    /\ job_pc' = "ended"
    /\ Notified("info", delivered)
    /\ UNCHANGED <<ledgerVars, balance, job_todo, job_start, job_closed, job_sold,
                   job_zero, job_allok, engineVars>>

\* ----------------------------------------------- scheduler start / stop
\* start_trading_scheduler: the singleton is built on first use, and only
\* its constructor (_setup_schedules) registers the 08:00 job; start()
\* returns early when already running
\* loop threads that can exist at once in the model
MaxThreads == 2

SchedStart ==
    /\ sched_exists' = TRUE
    /\ sched_jobs' = IF sched_exists THEN sched_jobs ELSE sched_jobs + 1
    /\ sched_running' = TRUE
    /\ sched_running \/ sched_threads < MaxThreads
    /\ sched_threads' = IF sched_running THEN sched_threads ELSE sched_threads + 1
    /\ UNCHANGED <<sched_missed, storeVars, dashVars, clientVars, ledgerVars, balance, notifyVars,
                   jobVars, engineVars, moreVars>>

\* stop_trading_scheduler: stop() clears the flag and then the library's
\* whole job list (schedule.clear())
SchedStop ==
    /\ sched_exists
    /\ sched_running' = FALSE
    /\ sched_jobs' = 0
    /\ UNCHANGED <<sched_exists, sched_missed, sched_threads, storeVars, dashVars, clientVars, ledgerVars,
                   balance, notifyVars, jobVars, engineVars, moreVars>>

\* _run_scheduler: run_pending() at the first wake-up after 08:00
\* _run_scheduler: a loop thread wakes from its sleep, finds is_running
\* False and returns
LoopExit ==
    /\ sched_threads > 0
    /\ ~sched_running
    /\ sched_threads' = sched_threads - 1
    /\ UNCHANGED <<sched_exists, sched_running, sched_jobs, sched_missed, storeVars,
                   dashVars, clientVars, ledgerVars, balance, notifyVars, jobVars,
                   engineVars, moreVars>>

RunPending(delivered) ==
    /\ sched_running
    /\ sched_threads > 0
    /\ job_pc \in {"idle", "ended"}
    /\ IF sched_jobs > 0
       THEN JobStart(delivered)
       ELSE /\ sched_missed' = TRUE
            /\ UNCHANGED <<sched_exists, sched_running, sched_jobs, sched_threads, storeVars, dashVars,
                           clientVars, ledgerVars, balance, notifyVars, jobVars,
                           engineVars, moreVars>>

\* ------------------------------------------------- configuration store
\* ConfigManager.default_config, scaled to the model's prices: rates in
\* 1/RateDen, amounts in thousands, volume_spike_threshold in tenths
DefaultConfig == [daily_loss_limit |-> -5, profit_rate |-> 3, loss_rate |-> -2,
                  max_positions |-> 2, min_balance_for_buy |-> 30,
                  investment_amount |-> 30, volume_spike_threshold |-> 20,
                  check_interval |-> 60]
DashConfigs == {DefaultConfig, [DefaultConfig EXCEPT !.daily_loss_limit = -10]}

\* ConfigManager.get reads the map loaded when the process started
ConfigGet(cfg, key) == cfg[key]

\* CoinButler.get_current_settings
get_current_settings(cfg) ==
    [daily_loss_limit |-> ConfigGet(cfg, "daily_loss_limit"),
     profit_rate |-> ConfigGet(cfg, "profit_rate"),
     loss_rate |-> ConfigGet(cfg, "loss_rate"),
     max_positions |-> ConfigGet(cfg, "max_positions")]

\* the Dashboard process persists a settings change (update_multiple of
\* its own ConfigManager): bot_config.json is rewritten
DashboardSave(newcfg) ==
    /\ UNCHANGED extVars
    /\ newcfg # config_file
    /\ config_file' = newcfg
    /\ UNCHANGED <<ledgerVars, balance, notifyVars, jobVars, config, is_running,
                   is_paused, loop_pc, settings, loop_todo, ctl_orders>>

\* ------------------------------------- configuration store operations
\* dict.get(key) of a key that is not present
None == -999

\* the file after an interrupted write (opened with 'w', dump not completed)
Torn == [torn |-> TRUE]

\* dict.update
Merge(base, upd) ==
    [k \in DOMAIN base \cup DOMAIN upd |-> IF k \in DOMAIN upd THEN upd[k] ELSE base[k]]

\* ConfigManager.default_config, built at time t
StoreDefault(t) == Merge(DefaultConfig, "last_updated" :> t)

\* load_config: the file's keys over the defaults; defaults when unreadable
load_config(file, t) ==
    IF "torn" \in DOMAIN file THEN StoreDefault(t) ELSE Merge(StoreDefault(t), file)

\* faulty variant: ten positions are refused
validate_config_errors_below_ten(cfg) ==
    {e \in {"min_balance_for_buy", "investment_amount", "max_positions", "profit_rate",
            "loss_rate", "volume_spike_threshold", "check_interval",
            "daily_loss_limit", "min_balance_over_investment"} :
        \/ e = "min_balance_for_buy" /\ cfg["min_balance_for_buy"] < 5
        \/ e = "investment_amount" /\ cfg["investment_amount"] < 5
        \/ e = "max_positions" /\ (cfg["max_positions"] < 1 \/ cfg["max_positions"] >= 10)
        \/ e = "profit_rate" /\ (cfg["profit_rate"] <= 0 \/ cfg["profit_rate"] > RateDen)
        \/ e = "loss_rate" /\ (cfg["loss_rate"] >= 0 \/ cfg["loss_rate"] < -RateDen)
        \/ e = "volume_spike_threshold" /\ cfg["volume_spike_threshold"] < 11
        \/ e = "check_interval" /\ cfg["check_interval"] < 10
        \/ e = "daily_loss_limit" /\ cfg["daily_loss_limit"] > 0
        \/ e = "min_balance_over_investment"
              /\ cfg["min_balance_for_buy"] > cfg["investment_amount"]}

\* validate_config: the list of violations, one entry per failed rule
validate_config_errors(cfg) ==
    {e \in {"min_balance_for_buy", "investment_amount", "max_positions", "profit_rate",
            "loss_rate", "volume_spike_threshold", "check_interval",
            "daily_loss_limit", "min_balance_over_investment"} :
        \/ e = "min_balance_for_buy" /\ cfg["min_balance_for_buy"] < 5
        \/ e = "investment_amount" /\ cfg["investment_amount"] < 5
        \/ e = "max_positions" /\ (cfg["max_positions"] < 1 \/ cfg["max_positions"] > 10)
        \/ e = "profit_rate" /\ (cfg["profit_rate"] <= 0 \/ cfg["profit_rate"] > RateDen)
        \/ e = "loss_rate" /\ (cfg["loss_rate"] >= 0 \/ cfg["loss_rate"] < -RateDen)
        \/ e = "volume_spike_threshold" /\ cfg["volume_spike_threshold"] < 11
        \/ e = "check_interval" /\ cfg["check_interval"] < 10
        \/ e = "daily_loss_limit" /\ cfg["daily_loss_limit"] > 0
        \/ e = "min_balance_over_investment"
              /\ cfg["min_balance_for_buy"] > cfg["investment_amount"]}

\* validate_config: TRUE when there are no violations
validate_config(cfg) == validate_config_errors(cfg) = {}

IoOutcomes == {"ok", "denied", "torn"}

\* save_config(arg): arg is stamped with last_updated before the file is
\* opened; aliased says arg is self.config itself (save_config())
save_config(mem, arg, aliased, file, t, io) ==
    LET stamped == Merge(arg, "last_updated" :> t)
    IN IF io = "ok" THEN [ok |-> TRUE, mem |-> stamped, file |-> stamped]
       ELSE [ok |-> FALSE,
             mem |-> IF aliased THEN stamped ELSE mem,
             file |-> IF io = "torn" THEN Torn ELSE file]

\* set(key, value)
store_set(mem, file, key, value, t, io) ==
    LET old_value == IF key \in DOMAIN mem THEN mem[key] ELSE None
        changed == Merge(mem, key :> value)
        r == save_config(changed, changed, TRUE, file, t, io)
    IN IF r.ok THEN r
       ELSE [ok |-> FALSE, mem |-> Merge(r.mem, key :> old_value), file |-> r.file]

\* update_multiple(updates)
update_multiple(mem, file, updates, t, io) ==
    LET old_values == [k \in DOMAIN updates |->
                          IF k \in DOMAIN mem THEN mem[k] ELSE None]
        changed == Merge(mem, updates)
        r == save_config(changed, changed, TRUE, file, t, io)
        kept == {k \in DOMAIN updates : old_values[k] # None}
    IN IF r.ok THEN r
       ELSE [ok |-> FALSE,
             mem |-> Merge(r.mem, [k \in kept |-> old_values[k]]),
             file |-> r.file]

\* reset_to_default
reset_to_default(mem, file, t, io) ==
    save_config(mem, StoreDefault(0), FALSE, file, t, io)

StoreApply(op, r) ==
    /\ store_clock' = store_clock + 1
    /\ store_config' = r.mem
    /\ config_file' = r.file
    /\ store_last' = [op |-> op, ok |-> r.ok]
    /\ UNCHANGED <<schedVars, clientVars, dashVars, ledgerVars, balance, notifyVars,
                   jobVars, config, is_running, is_paused, loop_pc, settings, loop_todo,
                   ctl_orders, moreVars>>

StoreSet(key, value, io) ==
    /\ store_clock < MaxClock
    /\ StoreApply("set", store_set(store_config, config_file, key, value,
                                   store_clock + 1, io))

StoreUpdateMultiple(updates, io) ==
    /\ store_clock < MaxClock
    /\ StoreApply("update_multiple",
                  update_multiple(store_config, config_file, updates,
                                  store_clock + 1, io))

StoreReset(io) ==
    /\ store_clock < MaxClock
    /\ StoreApply("reset_to_default",
                  reset_to_default(store_config, config_file, store_clock + 1, io))

\* the Dashboard process is started again: ConfigManager.__init__ -> load_config
StoreLoad ==
    /\ store_clock < MaxClock
    /\ StoreApply("load", [ok |-> TRUE,
                           mem |-> load_config(config_file, store_clock + 1),
                           file |-> config_file])

\* the Dashboard's save button: the form's values are put over the config in
\* memory, that config is validated, and it is persisted when valid
SaveSettings(new_config, io) ==
    /\ store_clock < MaxClock
    /\ store_clock' = store_clock + 1
    /\ LET temp_config == Merge(store_config, new_config)
           errors == validate_config_errors(temp_config)
           r == update_multiple(temp_config, config_file, new_config, store_clock + 1, io)
       IN /\ validated' = [config |-> temp_config, errors |-> errors]
          /\ IF errors = {}
             THEN /\ store_config' = r.mem
                  /\ config_file' = r.file
                  /\ store_last' = [op |-> "save_settings", ok |-> r.ok]
             ELSE /\ store_config' = temp_config
                  /\ store_last' = [op |-> "save_settings", ok |-> FALSE]
                  /\ UNCHANGED config_file
    /\ UNCHANGED <<schedVars, clientVars, dashVars, ledgerVars, balance, notifyVars,
                   jobVars, config, is_running, is_paused, loop_pc, settings, loop_todo,
                   ctl_orders, mgrVars, aiVars, sync_status, rebVars, pickVars, timeVars, raceVars>>

\* ------------------------------------------- AI recommendation tracker
MaxRecs == 2
ExecPrices == {50, 100}
ExitPrices == {50, 100, 150}
RecIds == 1..(MaxRecs + 1)
RecMarkets == {"KRW-A"}

\* AIRecommendation with the result fields at their defaults, as the engine
\* builds it; booleans are stored by sqlite as 0 / 1
NewRecommendation(market) ==
    [market |-> market, executed |-> 0, execution_price |-> None, exit_price |-> None,
     actual_return |-> None, success |-> None]

\* save_recommendation: INSERT, returns lastrowid
save_recommendation(rows, market) == Append(rows, NewRecommendation(market))

\* ((exit_price - execution_price) / execution_price) * 100
actual_return_of(execution_price, exit_price) ==
    ((exit_price - execution_price) * 100) \div execution_price

\* UPDATE ... WHERE id = ?: no row with that id changes nothing
UpdateRow(rows, id, row) == IF id \in 1..Len(rows) THEN [rows EXCEPT ![id] = row] ELSE rows

RowOrNew(rows, id) == IF id \in 1..Len(rows) THEN rows[id] ELSE NewRecommendation("")

\* faulty variant: a return of exactly zero counts as a success
update_recommendation_result_zero_wins(rows, id, execution_price, exit_price) ==
    IF exit_price = None
    THEN [ok |-> TRUE,
          rows |-> UpdateRow(rows, id, [RowOrNew(rows, id) EXCEPT
                       !.executed = 1, !.execution_price = execution_price])]
    ELSE IF execution_price = None \/ execution_price = 0
    THEN [ok |-> FALSE, rows |-> rows]
    ELSE LET actual_return == actual_return_of(execution_price, exit_price)
         IN [ok |-> TRUE,
             rows |-> UpdateRow(rows, id, [RowOrNew(rows, id) EXCEPT
                          !.executed = 1, !.execution_price = execution_price,
                          !.exit_price = exit_price, !.actual_return = actual_return,
                          !.success = IF actual_return >= 0 THEN 1 ELSE 0])]

\* update_recommendation_result: [ok, rows]; an exception inside (None or 0
\* as execution_price with an exit price) is caught and reported as False
update_recommendation_result(rows, id, execution_price, exit_price) ==
    IF exit_price = None
    THEN [ok |-> TRUE,
          rows |-> UpdateRow(rows, id, [RowOrNew(rows, id) EXCEPT
                       !.executed = 1, !.execution_price = execution_price])]
    ELSE IF execution_price = None \/ execution_price = 0
    THEN [ok |-> FALSE, rows |-> rows]
    ELSE LET actual_return == actual_return_of(execution_price, exit_price)
         IN [ok |-> TRUE,
             rows |-> UpdateRow(rows, id, [RowOrNew(rows, id) EXCEPT
                          !.executed = 1, !.execution_price = execution_price,
                          !.exit_price = exit_price, !.actual_return = actual_return,
                          !.success = IF actual_return > 0 THEN 1 ELSE 0])]

SaveRecommendation(market) ==
    /\ Len(ai_rows) < MaxRecs
    /\ ai_rows' = save_recommendation(ai_rows, market)
    /\ UNCHANGED <<mgrVars, valVars, rebVars, pickVars, timeVars, raceVars, coreVars>>

UpdateRecommendationResult(id, execution_price, exit_price) ==
    /\ ai_rows' = update_recommendation_result(ai_rows, id, execution_price, exit_price).rows
    /\ UNCHANGED <<mgrVars, valVars, rebVars, pickVars, timeVars, raceVars, coreVars>>

\* CoinButler._update_ai_recommendation_execution
update_ai_recommendation_execution(rows, recommendation_id, execution_price) ==
    IF recommendation_id > 0
    THEN update_recommendation_result(rows, recommendation_id, execution_price, None).rows
    ELSE rows

\* CoinButler._update_ai_recommendation_exit: the latest executed row of the
\* market without an exit price is updated, with None as execution_price
update_ai_recommendation_exit(rows, market, exit_price) ==
    LET pending == {i \in 1..Len(rows) : /\ rows[i].market = market
                                         /\ rows[i].executed = 1
                                         /\ rows[i].actual_return = None}
        found == {i \in 1..Len(rows) : /\ rows[i].market = market
                                       /\ rows[i].executed = 1
                                       /\ rows[i].exit_price = None}
    IN IF pending = {} \/ found = {} THEN rows
       ELSE LET recommendation_id == CHOOSE i \in found : \A j \in found : j <= i
            IN update_recommendation_result(rows, recommendation_id, None, exit_price).rows

\* -------------------------------------------------------- control loop
\* CoinButler.pause / resume
pause == TRUE
resume == FALSE

Resume ==
    /\ UNCHANGED extVars
    /\ is_paused
    /\ is_paused' = resume
    /\ UNCHANGED <<ledgerVars, balance, notifyVars, jobVars, config, config_file,
                   is_running, loop_pc, settings, loop_todo, ctl_orders>>

\* faulty variant: the iteration does not test is_paused
LoopTop_ignores_pause ==
    /\ UNCHANGED extVars
    /\ is_running
    /\ loop_pc = "top"
    /\ settings' = get_current_settings(config)
    /\ IF check_daily_loss_limit(daily_pnl, today,
                                 get_current_settings(config).daily_loss_limit)
       THEN is_paused' = pause /\ UNCHANGED <<loop_pc, loop_todo>>
       ELSE /\ loop_pc' = "manage"
            /\ loop_todo' = get_open_positions(positions)
            /\ UNCHANGED is_paused
    /\ UNCHANGED <<ledgerVars, balance, notifyVars, jobVars, config, config_file,
                   is_running, ctl_orders>>

\* _main_loop, top of an iteration: settings, pause check, loss-limit check
LoopTop ==
    /\ UNCHANGED extVars
    /\ is_running
    /\ loop_pc = "top"
    /\ settings' = get_current_settings(config)
    /\ IF is_paused
       THEN UNCHANGED <<is_paused, loop_pc, loop_todo>>
       ELSE IF check_daily_loss_limit(daily_pnl, today,
                    get_current_settings(config).daily_loss_limit)
       THEN is_paused' = pause /\ UNCHANGED <<loop_pc, loop_todo>>
       ELSE /\ loop_pc' = "manage"
            /\ loop_todo' = get_open_positions(positions)
            /\ UNCHANGED is_paused
    /\ UNCHANGED <<ledgerVars, balance, notifyVars, jobVars, config, config_file,
                   is_running, ctl_orders>>

\* _execute_sell for an accepted order that fills at avg_price
SellFilled(market, avg_price, delivered) ==
    LET r == close_position(Ledger, today, market, avg_price)
    IN /\ SetLedger(r.L)
       /\ last_call' = [op |-> "close_position", ok |-> r.ok]
       /\ balance' = [balance EXCEPT ![market] =
                        IF balance[market] >= positions[market].quantity
                        THEN balance[market] - positions[market].quantity ELSE 0]
       /\ IF r.ok THEN Notified("sell", delivered) ELSE UNCHANGED notifyVars
       /\ ai_rows' = IF r.ok THEN update_ai_recommendation_exit(ai_rows, market, avg_price)
                     ELSE ai_rows

\* _manage_positions, one iteration of the loop over open_positions
ManageOne(market, price, order_ok, filled, delivered) ==
    /\ UNCHANGED nonTrackerVars
    /\ loop_pc = "manage"
    /\ market \in loop_todo
    /\ loop_todo' = loop_todo \ {market}
    /\ UNCHANGED <<today, sell_check, jobVars, config, config_file, is_running,
                   is_paused, loop_pc, settings>>
    /\ IF price \notin Prices
          \/ ~should_sell(positions, market, price, settings.profit_rate,
                          settings.loss_rate).sell
          \/ ~order_ok
       THEN UNCHANGED <<positions, positions_file, trade_history, daily_pnl,
                        last_call, balance, notifyVars, ctl_orders, aiVars>>
       ELSE /\ ctl_orders < MaxOrders
            /\ RoomInHistory
            /\ ctl_orders' = ctl_orders + 1
            /\ IF filled
               THEN SellFilled(market, price, delivered)
               ELSE UNCHANGED <<positions, positions_file, trade_history, daily_pnl,
                                last_call, balance, notifyVars, aiVars>>

ManageDone ==
    /\ UNCHANGED extVars
    /\ loop_pc = "manage"
    /\ loop_todo = {}
    /\ loop_pc' = "scan"
    /\ UNCHANGED <<ledgerVars, balance, notifyVars, jobVars, config, config_file,
                   is_running, is_paused, settings, loop_todo, ctl_orders>>

\* _scan_for_opportunities / _execute_buy: nothing is bought (scan not due,
\* cap reached, no candidate, no funds, order refused or not filled)
ScanNoBuy ==
    /\ UNCHANGED extVars
    /\ loop_pc = "scan"
    /\ loop_pc' = "top"
    /\ UNCHANGED <<ledgerVars, balance, notifyVars, jobVars, config, config_file,
                   is_running, is_paused, settings, loop_todo, ctl_orders>>

\* _scan_for_opportunities / _execute_buy: a candidate is bought and fills;
\* recommendation_id is the candidate's, 0 when it carries none
ExecuteBuy(recommendation_id, market, avg_price, executed_volume, delivered) ==
    /\ UNCHANGED nonTrackerVars
    /\ Cardinality(get_open_positions(positions)) < settings.max_positions
    /\ ctl_orders < MaxOrders
    /\ RoomInHistory
    /\ ctl_orders' = ctl_orders + 1
    /\ balance' = [balance EXCEPT ![market] = executed_volume]
    /\ LET r == add_position(Ledger, today, market, avg_price, executed_volume,
                             executed_volume * avg_price)
       IN /\ SetLedger(r.L)
          /\ last_call' = [op |-> "add_position", ok |-> r.ok]
          /\ IF r.ok THEN Notified("buy", delivered) ELSE UNCHANGED notifyVars
          /\ ai_rows' = IF r.ok
                        THEN update_ai_recommendation_execution(ai_rows, recommendation_id,
                                                                avg_price)
                        ELSE ai_rows
    /\ loop_pc' = "top"
    /\ UNCHANGED <<today, sell_check, jobVars, config, config_file, is_running,
                   is_paused, settings, loop_todo>>

\* the best candidate is the top market by traded value, without a
\* recommendation
ScanBuy(market, avg_price, executed_volume, delivered) ==
    /\ loop_pc = "scan"
    /\ ExecuteBuy(0, market, avg_price, executed_volume, delivered)

\* the best candidate is the market the AI recommended
ScanBuyRecommended(recommendation_id, market, avg_price, executed_volume, delivered) ==
    /\ loop_pc = "scan"
    /\ recommendation_id \in 1..Len(ai_rows)
    /\ ExecuteBuy(recommendation_id, market, avg_price, executed_volume, delivered)

\* ------------------------------------------- the scan's choice of market
\* the ranking by traded value, best first (get_daily_trade_volume_ranking)
Ranking == <<"M1", "M2", "M3", "M4", "M5", "M6", "M7">>

\* how many candidates go to the AI
AiCandidateCount == 5

Min(a, b) == IF a <= b THEN a ELSE b
Max(a, b) == IF a >= b THEN a ELSE b

\* ai_candidates = high_volume_candidates[:5]
ai_candidates(high_volume_candidates) ==
    SubSeq(high_volume_candidates, 1, Min(AiCandidateCount, Len(high_volume_candidates)))

\* "" is no recommended_coin; a name outside the ranking is one the AI made up
AiPicks == {Ranking[i] : i \in 1..Len(Ranking)} \cup {"", "M9"}
Confidences == {6, 7, 8}
ConfidenceThresholds == {7, 8}
RiskLevels == {"LOW", "MEDIUM", "HIGH"}

\* _scan_for_opportunities from 'best_candidate = high_volume_candidates[0]'
\* on: the market handed to _execute_buy
best_candidate(high_volume_candidates, ai_enabled, ai_raises, recommended_coin, confidence, risk_level, confidence_threshold) ==
    IF ai_enabled /\ Len(high_volume_candidates) > 1 /\ ~ai_raises
       /\ recommended_coin # ""
       /\ confidence >= confidence_threshold
       /\ risk_level # "HIGH"
       /\ \E i \in 1..Len(high_volume_candidates) :
              high_volume_candidates[i] = recommended_coin
    THEN recommended_coin
    ELSE high_volume_candidates[1]

ScanChoose(count, ai_enabled, ai_raises, recommended_coin, confidence, risk_level, confidence_threshold) ==
    /\ scan.bought = ""    \* one scan per loop pass
    /\ scan' = [candidates |-> SubSeq(Ranking, 1, count),
                ai_enabled |-> ai_enabled, ai_raises |-> ai_raises,
                recommended_coin |-> recommended_coin, confidence |-> confidence,
                risk_level |-> risk_level, confidence_threshold |-> confidence_threshold,
                bought |-> best_candidate(SubSeq(Ranking, 1, count), ai_enabled, ai_raises,
                                          recommended_coin, confidence, risk_level,
                                          confidence_threshold)]
    /\ UNCHANGED <<sizing, timeVars, mgrVars, aiVars, valVars, rebVars, raceVars, coreVars>>

NextScan ==
    \E count \in 1..Len(Ranking), e \in BOOLEAN, x \in BOOLEAN, r \in AiPicks,
       c \in Confidences, l \in RiskLevels, t \in ConfidenceThresholds :
        ScanChoose(count, e, x, r, c, l, t)

\* ------------------------------------------------ the size of a buy
\* money is in thousands; an order amount is in tenths of that
AmountScale == 10
MinOrderAmount == 10
FallbackAmount == 30

KrwBalances == {5, 8, 10, 12, 13, 20, 30, 50, 100}
Suggestions == {5, 10, 25, 30, 50, 100}
MinBalances == {5, 10, 30}

\* analyze_position_amount: min(suggested, 0.8 * balance), then at least
\* 10,000; when the analysis raises, min(30000, 0.7 * balance)
analyze_position_amount(krw_balance, ai_raises, suggested) ==
    IF ai_raises
    THEN Min(FallbackAmount * AmountScale, krw_balance * 7)
    ELSE Max(Min(suggested * AmountScale, krw_balance * 8), MinOrderAmount * AmountScale)

\* _execute_buy up to place_buy_order, with the AI enabled
SizeBuy(krw_balance, min_balance, ai_raises, suggested) ==
    /\ sizing.investment_amount = 0    \* one buy per scan
    /\ LET investment_amount == analyze_position_amount(krw_balance, ai_raises, suggested)
       IN sizing' = [krw_balance |-> krw_balance, min_balance |-> min_balance,
                     ai_raises |-> ai_raises, suggested |-> suggested,
                     investment_amount |-> investment_amount,
                     ordered |-> /\ krw_balance >= min_balance
                                 /\ krw_balance * AmountScale >= investment_amount]
    /\ UNCHANGED <<scan, timeVars, mgrVars, aiVars, valVars, rebVars, raceVars, coreVars>>

NextSizing ==
    \E b \in KrwBalances, m \in MinBalances, x \in BOOLEAN, a \in Suggestions :
        SizeBuy(b, m, x, a)

\* hours the clock can run in the model
MaxWall == 2

\* time passes between two operations of the engine
Wait ==
    /\ wall < MaxWall
    /\ wall' = wall + 1
    /\ UNCHANGED <<mgrVars, aiVars, valVars, rebVars, pickVars, raceVars, coreVars>>

InitTime == wall = 0

InitPick ==
    /\ scan = [candidates |-> <<"M1">>, ai_enabled |-> FALSE, ai_raises |-> FALSE,
               recommended_coin |-> "", confidence |-> 6, risk_level |-> "LOW",
               confidence_threshold |-> 7, bought |-> ""]
    /\ sizing = [krw_balance |-> 5, min_balance |-> 30, ai_raises |-> FALSE,
                 suggested |-> 30, investment_amount |-> 0, ordered |-> FALSE]

\* ---------------------------------------- two threads, one position
\* The control thread (_manage_positions -> _execute_sell) and the scheduler
\* thread (_daily_sell_all_positions) share the ledger object and the
\* exchange account; neither takes a lock, so every statement of one may run
\* between two statements of the other.
NoPnlLocal == [data |-> <<>>, profit_loss |-> 0]

IdleThread == [pc |-> "idle", market |-> "KRW-A", volume |-> 0, price |-> 0,
               ordered |-> FALSE]

raceFrame == <<today, sell_check, jobVars, engineVars, schedVars, storeVars,
               clientVars, dashVars, mgrVars, valVars, rebVars, pickVars, timeVars, pnl_local>>

\* the exchange accepts a market sell of what the account holds
place_sell_order_accepted(bal, market, volume) == volume > 0 /\ bal[market] >= volume

\* _execute_sell: the position is looked up and found open
CtlBegin(market) ==
    /\ thr["control"].pc = "idle"
    /\ positions[market].status = "open"
    /\ thr' = [thr EXCEPT !["control"] =
                  [pc |-> "order", market |-> market,
                   volume |-> positions[market].quantity, price |-> 0,
                   ordered |-> FALSE]]
    /\ UNCHANGED <<ledgerVars, balance, notifyVars, aiVars, sell_orders, raceFrame>>

\* _daily_sell_all_positions: the market is in the open positions read at the
\* start, and its current price is fetched
SchBegin(market, current_price) ==
    /\ thr["scheduler"].pc = "idle"
    /\ positions[market].status = "open"
    /\ thr' = [thr EXCEPT !["scheduler"] =
                  [pc |-> "balance", market |-> market, volume |-> 0,
                   price |-> current_price, ordered |-> FALSE]]
    /\ UNCHANGED <<ledgerVars, balance, notifyVars, aiVars, sell_orders, raceFrame>>

\* _daily_sell_all_positions: get_coin_balance
SchBalance ==
    LET me == thr["scheduler"]
    IN /\ me.pc = "balance"
       /\ thr' = [thr EXCEPT !["scheduler"] =
                     [me EXCEPT !.volume = balance[me.market],
                                !.pc = IF balance[me.market] <= 0 THEN "close_check"
                                       ELSE "order"]]
       /\ UNCHANGED <<ledgerVars, balance, notifyVars, aiVars, sell_orders, raceFrame>>

\* place_sell_order of either thread; the control thread then waits for the
\* fill, the scheduler thread goes on to close the position
PlaceSellOrder(t) ==
    LET me == thr[t]
        accepted == place_sell_order_accepted(balance, me.market, me.volume)
    IN /\ me.pc = "order"
       /\ balance' = IF accepted
                     THEN [balance EXCEPT ![me.market] = balance[me.market] - me.volume]
                     ELSE balance
       /\ sell_orders' = IF accepted
                         THEN [sell_orders EXCEPT ![me.market] = sell_orders[me.market] + 1]
                         ELSE sell_orders
       /\ thr' = [thr EXCEPT ![t] =
                     IF ~accepted THEN IdleThread
                     ELSE [me EXCEPT !.ordered = TRUE,
                                     !.pc = IF t = "control" THEN "poll"
                                            ELSE "close_check"]]
       /\ UNCHANGED <<ledgerVars, notifyVars, aiVars, raceFrame>>

\* _execute_sell: get_order_info after the wait
CtlPoll(filled, avg_price) ==
    LET me == thr["control"]
    IN /\ me.pc = "poll"
       /\ thr' = [thr EXCEPT !["control"] =
                     IF filled THEN [me EXCEPT !.price = avg_price, !.pc = "close_check"]
                     ELSE IdleThread]
       /\ UNCHANGED <<ledgerVars, balance, notifyVars, aiVars, sell_orders, raceFrame>>

\* close_position, its first statement: None unless the position is open
CloseCheck(t) ==
    LET me == thr[t]
        open == positions[me.market].status = "open"
    IN /\ me.pc = "close_check"
       /\ thr' = [thr EXCEPT ![t] = IF open THEN [me EXCEPT !.pc = "close_act"]
                                    ELSE IdleThread]
       /\ last_call' = IF open THEN last_call
                       ELSE [op |-> "close_position", ok |-> FALSE]
       /\ UNCHANGED <<positions, positions_file, trade_history, daily_pnl, today,
                      sell_check, balance, notifyVars, aiVars, sell_orders, raceFrame>>

\* close_position, the rest of it, and what the caller does with the result
CloseAct(t, delivered) ==
    LET me == thr[t]
    IN /\ me.pc = "close_act"
       /\ RoomInHistory
       /\ SetLedger(close_position_act(Ledger, today, me.market, me.price))
       /\ last_call' = [op |-> "close_position", ok |-> TRUE]
       /\ IF me.ordered THEN Notified("sell", delivered) ELSE UNCHANGED notifyVars
       /\ ai_rows' = IF t = "control"
                     THEN update_ai_recommendation_exit(ai_rows, me.market, me.price)
                     ELSE ai_rows
       /\ thr' = [thr EXCEPT ![t] = IdleThread]
       /\ UNCHANGED <<balance, sell_orders, raceFrame>>

\* the control thread buys while it is not selling
RaceBuy(market, avg_price, executed_volume) ==
    /\ thr["control"].pc = "idle"
    /\ positions[market].status # "open"
    /\ Bought(market, avg_price, executed_volume)

\* close_position up to _record_trade: the position object is closed and the
\* SELL row appended
CloseRecord(t) ==
    LET me == thr[t]
        pos == positions[me.market]
        profit_loss == calculate_current_pnl(pos, me.price)
    IN /\ me.pc = "close_act"
       /\ RoomInHistory
       /\ positions' = [positions EXCEPT ![me.market] = ClosedPos(pos)]
       /\ trade_history' = Append(trade_history,
              TradeRow(me.market, "SELL", me.price, pos.quantity, profit_loss,
                       daily_pnl, today))
       /\ pnl_local' = [pnl_local EXCEPT ![t] = [data |-> <<>>,
                                                 profit_loss |-> profit_loss]]
       /\ thr' = [thr EXCEPT ![t] = [me EXCEPT !.pc = "pnl_read"]]
       /\ UNCHANGED <<positions_file, daily_pnl, today, last_call, sell_check, balance,
                      notifyVars, aiVars, sell_orders, jobVars, engineVars, schedVars,
                      storeVars, clientVars, dashVars, mgrVars, valVars, rebVars, pickVars, timeVars>>

\* _update_daily_pnl: daily_pnl.json is read into data
PnlRead(t) ==
    LET me == thr[t]
    IN /\ me.pc = "pnl_read"
       /\ pnl_local' = [pnl_local EXCEPT ![t].data = daily_pnl]
       /\ thr' = [thr EXCEPT ![t] = [me EXCEPT !.pc = "pnl_write"]]
       /\ UNCHANGED <<ledgerVars, balance, notifyVars, aiVars, sell_orders, jobVars,
                      engineVars, schedVars, storeVars, clientVars, dashVars, mgrVars,
                      valVars, rebVars, pickVars, timeVars>>

\* _update_daily_pnl: data[today] is increased and data written back; then the
\* snapshot is saved and the caller notifies
PnlWrite(t, delivered) ==
    LET me == thr[t]
    IN /\ me.pc = "pnl_write"
       /\ daily_pnl' = UpdatedDailyPnl(pnl_local[t].data, today, pnl_local[t].profit_loss)
       /\ positions_file' = SavedFile(positions)
       /\ last_call' = [op |-> "close_position", ok |-> TRUE]
       /\ IF me.ordered THEN Notified("sell", delivered) ELSE UNCHANGED notifyVars
       /\ ai_rows' = IF t = "control"
                     THEN update_ai_recommendation_exit(ai_rows, me.market, me.price)
                     ELSE ai_rows
       /\ thr' = [thr EXCEPT ![t] = IdleThread]
       /\ pnl_local' = [pnl_local EXCEPT ![t] = NoPnlLocal]
       /\ UNCHANGED <<positions, trade_history, today, sell_check, balance, sell_orders,
                      jobVars, engineVars, schedVars, storeVars, clientVars, dashVars,
                      mgrVars, valVars, rebVars, pickVars, timeVars>>

\* the other thread is not working on this market
OtherThreadElsewhere(t, market) ==
    \A u \in Threads \ {t} : thr[u].pc = "idle" \/ thr[u].market # market

InitRace ==
    /\ thr = [t \in Threads |-> IdleThread]
    /\ pnl_local = [t \in Threads |-> NoPnlLocal]
    /\ sell_orders = [m \in Markets |-> 0]

\* the markets the two threads meet on
RaceMarkets == {"KRW-A", "KRW-B"}

NextRace ==
    \/ \E m \in RaceMarkets, p \in Prices, q \in Qtys : RaceBuy(m, p, q)
    \/ \E m \in RaceMarkets : CtlBegin(m)
    \/ \E m \in RaceMarkets, p \in Prices : SchBegin(m, p)
    \/ SchBalance
    \/ \E t \in Threads : PlaceSellOrder(t)
    \/ \E f \in BOOLEAN, p \in Prices : CtlPoll(f, p)
    \/ \E t \in Threads : CloseCheck(t)
    \/ \E t \in Threads : CloseAct(t, TRUE)

\* what _execute_sell hands back to its caller: no path returns a value
execute_sell_return == None

\* Python truth of a returned value
Truthy(v) == v # None /\ v # 0

\* _execute_rebalancing for one decision: the old position is sold, then the
\* replacement is bought when the sell's result is true
ExecuteRebalancing(sell_market, has_opportunity, price, order_ok, filled, delivered) ==
    /\ UNCHANGED <<schedVars, storeVars, clientVars, dashVars, mgrVars, valVars, raceVars,
                   pickVars, timeVars>>
    /\ loop_pc = "scan"
    /\ positions[sell_market].status = "open"
    /\ ctl_orders < MaxOrders
    /\ RoomInHistory
    /\ ctl_orders' = IF order_ok THEN ctl_orders + 1 ELSE ctl_orders
    /\ IF order_ok /\ filled
       THEN SellFilled(sell_market, price, delivered)
       ELSE UNCHANGED <<positions, positions_file, trade_history, daily_pnl,
                        last_call, balance, notifyVars, aiVars>>
    /\ LET success == execute_sell_return
       IN rebalance' = [sold |-> order_ok /\ filled,
                        opportunity |-> has_opportunity,
                        buy_attempted |-> Truthy(success) /\ has_opportunity]
    /\ UNCHANGED <<today, sell_check, jobVars, config, config_file, is_running,
                   is_paused, loop_pc, settings, loop_todo>>

\* ------------------------------------------------------------ defaults

InitLedger ==
    /\ positions = [m \in Markets |-> NoPos]
    /\ positions_file = [m \in Markets |-> NoPos]
    /\ trade_history = <<>>
    /\ daily_pnl = [d \in Dates |-> 0]
    /\ today = 1
    /\ last_call = [op |-> "none", ok |-> FALSE]
    /\ sell_check = NoSellCheck

InitSched ==
    /\ sched_exists = FALSE
    /\ sched_running = FALSE
    /\ sched_jobs = 0
    /\ sched_missed = FALSE
    /\ sched_threads = 0

InitStore ==
    /\ store_config = load_config(DefaultConfig, 0)
    /\ store_clock = 0
    /\ store_last = [op |-> "load", ok |-> TRUE]

\* last_call_time starts at 0 and the clock is far beyond it
InitClient ==
    /\ rl_now = call_interval
    /\ last_call_time = 0
    /\ rl_releases = <<>>
    /\ client = [t \in Threads |-> IdleCall]

InitDash ==
    /\ dash_pc = "idle"
    /\ dash_read = <<>>

InitMgr ==
    /\ mgr_is_running = FALSE
    /\ bot_process = "none"
    /\ dashboard_process = "none"
    /\ mgr_pc = "main"
    /\ spawn_fails = 0
    /\ child_deaths = 0
    /\ mgr_restarts = 0

InitAi == ai_rows = <<>>

InitVal ==
    /\ validated = [config |-> DefaultConfig, errors |-> {}]
    /\ sync_status = [balances |-> <<>>, positions |-> <<>>,
                      result |-> analyze_balance_sync(<<>>, <<>>)]

InitReb == rebalance = [sold |-> FALSE, opportunity |-> FALSE, buy_attempted |-> FALSE]

InitMore == InitMgr /\ InitAi /\ InitVal /\ InitReb /\ InitRace /\ InitPick /\ InitTime

InitExt == InitSched /\ InitStore /\ InitClient /\ InitDash /\ InitMore

InitRest ==
    /\ InitExt
    /\ balance = [m \in Markets |-> 0]
    /\ notifier_on \in BOOLEAN
    /\ last_notify = [kind |-> "none", outcome |-> "none"]
    /\ sent = {}
    /\ job_pc = "idle"
    /\ job_todo = {}
    /\ job_start = {}
    /\ job_closed = {}
    /\ job_sold = {}
    /\ job_zero = {}
    /\ job_allok = TRUE
    /\ config = DefaultConfig
    /\ config_file = DefaultConfig
    /\ is_running = TRUE
    /\ is_paused = FALSE
    /\ loop_pc = "top"
    /\ settings = get_current_settings(DefaultConfig)
    /\ loop_todo = {}
    /\ ctl_orders = 0

Init == InitLedger /\ InitRest

Next ==
    \/ \E m \in Markets, p \in Prices, q \in Qtys : AddPosition(m, p, q)
    \/ \E m \in Markets, p \in Prices : ClosePosition(m, p)
    \/ Midnight
    \/ Restart

Spec == Init /\ [][Next]_vars

\* what _execute_sell can meet: the order is refused, accepted and not filled,
\* or filled, and only a filled sale is announced: <<order_ok, filled, delivered>>
SellOrderOutcomes ==
    {r \in BOOLEAN \X BOOLEAN \X BOOLEAN : (r[2] => r[1]) /\ (r[3] => r[2])}

\* the engine process: control thread, operator and Dashboard
NextEngine ==
    \/ LoopTop
    \/ \E m \in Markets, p \in PriceOutcomes, r \in SellOrderOutcomes :
           ManageOne(m, p, r[1], r[2], r[3])
    \/ ManageDone
    \/ ScanNoBuy
    \/ \E m \in Markets, p \in Prices, q \in Qtys, d \in BOOLEAN : ScanBuy(m, p, q, d)
    \/ Resume
    \/ \E c \in DashConfigs : DashboardSave(c)
    \/ Midnight

SpecEngine == Init /\ [][NextEngine]_vars

\* should_sell asked of ledgers built by recorded fills
NextSell ==
    \/ \E m \in Markets, p \in Prices, q \in Qtys : AddPosition(m, p, q)
    \/ \E m \in Markets, p \in SellPrices, pr \in ProfitRates, lr \in LossRates :
           ShouldSell(m, p, pr, lr)

SpecSell == Init /\ [][NextSell]_vars

\* the notifier module under its callers
NextNotify == \E k \in NotifyKinds, d \in BOOLEAN : NotifyCall(k, d)

SpecNotify == Init /\ [][NextNotify]_vars

\* reconciliation with the exchange account next to the engine's buys
\* the answers of one reconciliation run: the ticker level, the markets
\* whose price lookup came back empty, the avg_buy_price the account reports
Quotes(quote, noprice) == [m \in Held |-> IF m \in noprice THEN NoPrice ELSE quote]
AvgBuys(avg) == [m \in Held |-> avg]

NextSync ==
    \/ \E m \in Markets, q \in Qtys \cup {0} : ExchangeChange(m, q)
    \/ \E a \in BOOLEAN, quote \in PriceOutcomes, np \in SUBSET Held, avg \in AvgBuyPrices :
           RestoreFromUpbit(a, Quotes(quote, np), AvgBuys(avg))
    \/ \E a \in BOOLEAN, quote \in PriceOutcomes, np \in SUBSET Held, avg \in AvgBuyPrices :
           ForceSync(a, Quotes(quote, np), AvgBuys(avg))

\* trade_history.csv as earlier runs may have left it
InitHistories ==
    {<<>>, <<TradeRow("KRW-A", "BUY", 100, 2, 0, [d \in Dates |-> 0], 1)>>}

InitSync ==
    /\ InitRest
    /\ positions = [m \in Markets |-> NoPos]
    /\ positions_file = [m \in Markets |-> NoPos]
    /\ trade_history \in InitHistories
    /\ daily_pnl = [d \in Dates |-> 0]
    /\ today = 1
    /\ last_call = [op |-> "none", ok |-> FALSE]
    /\ sell_check = NoSellCheck

SpecSync == InitSync /\ [][NextSync]_vars

\* the scheduler thread's liquidation job next to the engine's buys
NextJob ==
    \/ \E m \in Markets, p \in Prices, q \in Qtys : Bought(m, p, q)
    \/ \E m \in Markets : ExchangeChange(m, 0)
    \/ \E d \in BOOLEAN : JobStart(d)
    \/ \E m \in Markets, p \in PriceOutcomes, a \in BOOLEAN, o \in BOOLEAN, d \in BOOLEAN :
           JobSellOne(m, p, a, o, d)
    \/ \E d \in BOOLEAN : JobFinish(d)

SpecJob == Init /\ [][NextJob]_vars

\* the scheduler's life cycle around the liquidation job
NextSched ==
    \/ SchedStart
    \/ SchedStop
    \/ LoopExit
    \/ \E d \in BOOLEAN : RunPending(d)
    \/ \E m \in Markets, p \in Prices, q \in Qtys : Bought(m, p, q)
    \/ \E m \in Markets, p \in PriceOutcomes, a \in BOOLEAN, o \in BOOLEAN, d \in BOOLEAN :
           JobSellOne(m, p, a, o, d)
    \/ \E d \in BOOLEAN : JobFinish(d)

SpecSched == Init /\ [][NextSched]_vars

\* the configuration store under its callers
SetInputs == {<<"max_positions", 0>>, <<"max_positions", 3>>,
              <<"daily_loss_limit", -10>>, <<"note", 1>>}
UpdateInputs == {("max_positions" :> 3) @@ ("note" :> 1),
                 ("daily_loss_limit" :> -10) @@ ("loss_rate" :> -5),
                 ("profit_rate" :> 0) @@ ("loss_rate" :> -5)}

NextStore ==
    \/ \E kv \in SetInputs, io \in IoOutcomes : StoreSet(kv[1], kv[2], io)
    \/ \E u \in UpdateInputs, io \in IoOutcomes : StoreUpdateMultiple(u, io)
    \/ \E io \in IoOutcomes : StoreReset(io)
    \/ StoreLoad

SpecStore == Init /\ [][NextStore]_vars

\* the exchange client called from the control and the scheduler thread
NextClient ==
    \/ \E t \in Threads, k \in CallKinds : CallBegin(t, k)
    \/ \E t \in Threads : LimiterRead(t)
    \/ \E t \in Threads : LimiterWake(t)
    \/ \E t \in Threads : LimiterStamp(t)
    \/ \E t \in Threads, o \in RequestOutcomes : Request(t, o)
    \/ \E t \in Threads : BackoffDone(t)
    \/ Tick

SpecClient == Init /\ [][NextClient]_vars

\* the engine's ledger next to the Dashboard's reconciliation action
NextDash ==
    \/ \E m \in Markets, p \in Prices, q \in Qtys : Bought(m, p, q)
    \/ \E m \in Markets, p \in Prices : ClosePosition(m, p)
    \/ \E avg \in AvgBuyPrices : DashSyncBegin(AvgBuys(avg))
    \/ DashSyncEnd

SpecDash == Init /\ [][NextDash]_vars

\* the supervisor and its two children
NextMgr ==
    \/ \E ok \in SpawnOutcomes : StartAllBot(ok)
    \/ \E ok \in SpawnOutcomes : StartAllDashboard(ok)
    \/ \E child \in {"bot", "dashboard"} : ChildDies(child)
    \/ \E ok \in SpawnOutcomes : MonitorBot(ok)
    \/ \E ok \in SpawnOutcomes : MonitorDashboard(ok)
    \/ Interrupt

\* the monitor loop keeps running while the process lives
FairMgr ==
    /\ WF_vars(\E ok \in SpawnOutcomes : MonitorBot(ok))
    /\ WF_vars(\E ok \in SpawnOutcomes : MonitorDashboard(ok))

SpecMgr == Init /\ [][NextMgr]_vars /\ FairMgr

\* the tracker called with every combination of arguments
NextAi ==
    \/ \E m \in RecMarkets : SaveRecommendation(m)
    \/ \E id \in RecIds, ep \in ExecPrices \cup {None}, xp \in ExitPrices \cup {None} :
           UpdateRecommendationResult(id, ep, xp)

SpecAi == Init /\ [][NextAi]_vars

\* values the settings form can carry, around every limit of validate_config
FormInputs ==
    {"max_positions" :> v : v \in {0, 1, 10, 11}}
        \cup {"profit_rate" :> v : v \in {0, 1, RateDen, RateDen + 1}}
        \cup {"loss_rate" :> v : v \in {-(RateDen + 1), -RateDen, -1, 0}}
        \cup {"min_balance_for_buy" :> v : v \in {29, 31}}
        \cup {"investment_amount" :> v : v \in {29, 31}}

NextValidate == \E f \in FormInputs, io \in {"ok", "denied"} : SaveSettings(f, io)

SpecValidate == Init /\ [][NextValidate]_vars

\* the analysis applied to every pair of maps
NextAnalysis == \E B \in QuantityMaps, P \in QuantityMaps : AnalyzeBalanceSync(B, P)

\* ------------------------------------- reconciliation, then the analysis
\* quantities in thousandths of a coin: 1 is at the dust threshold
ReconcileQuantities == {1, 2000}
ReconcileMarkets == {"KRW-A", "KRW-B", "KRW-C"}
\* the order in which a JSON object's keys are iterated
MarketOrder == <<"KRW-A", "KRW-B", "KRW-C">>

BalanceMaps == UNION {[ms -> ReconcileQuantities] : ms \in SUBSET ReconcileMarkets}

\* _sync_with_upbit: the entries written to positions.json. An entry kept from
\* the old file keeps its entry_time; a new one gets 'buy_time' instead
sync_with_upbit(current_positions, actual_upbit_balances) ==
    [m \in {x \in DOMAIN actual_upbit_balances :
                actual_upbit_balances[x] > SyncTolerance} |->
        [quantity |-> actual_upbit_balances[m],
         has_entry_time |-> m \in DOMAIN current_positions
                            /\ current_positions[m].has_entry_time]]

\* get_system_status: positions_data as built from positions.json. Reading
\* 'entry_time' of an entry without it raises inside the handler of the same
\* error, and the outer 'except: pass' ends the loop
RECURSIVE positions_data_from(_, _)
positions_data_from(file, order) ==
    IF order = <<>> THEN <<>>
    ELSE LET m == Head(order)
         IN IF m \notin DOMAIN file THEN positions_data_from(file, Tail(order))
            ELSE IF ~file[m].has_entry_time THEN <<>>
            ELSE (m :> file[m].quantity) @@ positions_data_from(file, Tail(order))

\* the files a reconciliation can find: entries written by the engine
OldFiles ==
    UNION {[ms -> {[quantity |-> 2000, has_entry_time |-> TRUE]}] :
              ms \in SUBSET ReconcileMarkets}

\* the sync button, then the page's next get_system_status with the same
\* balances
ReconcileThenAnalyze(current_positions, actual_upbit_balances) ==
    LET file == sync_with_upbit(current_positions, actual_upbit_balances)
        positions_data == positions_data_from(file, MarketOrder)
    IN /\ sync_status' = [balances |-> actual_upbit_balances,
                          positions |-> positions_data,
                          result |-> analyze_balance_sync(actual_upbit_balances,
                                                          positions_data),
                          file |-> file]
       /\ UNCHANGED <<validated, mgrVars, aiVars, rebVars, pickVars, timeVars, raceVars, coreVars>>

NextReconcile ==
    \E F \in OldFiles, B \in BalanceMaps : ReconcileThenAnalyze(F, B)

SpecReconcile == Init /\ [][NextReconcile]_vars

SpecAnalysis == Init /\ [][NextAnalysis]_vars

SpecRace == Init /\ [][NextRace]_vars

SpecScan == Init /\ [][NextScan]_vars

\* positions are bought, time passes, the engine is started again or syncs
NextHold ==
    \/ \E m \in Markets, p \in Prices, q \in Qtys : Bought(m, p, q)
    \/ Wait
    \/ \E quote \in Prices, avg \in AvgBuyPrices :
           RestoreFromUpbit(TRUE, Quotes(quote, {}), AvgBuys(avg))
    \/ \E quote \in Prices, avg \in AvgBuyPrices :
           ForceSync(TRUE, Quotes(quote, {}), AvgBuys(avg))

SpecHold == Init /\ [][NextHold]_vars

SpecSizing == Init /\ [][NextSizing]_vars

\* the two threads selling different positions, close_position at the grain
\* of its file accesses
NextPnlRace ==
    \/ \E m \in RaceMarkets, p \in Prices, q \in Qtys : RaceBuy(m, p, q)
    \/ \E m \in RaceMarkets : OtherThreadElsewhere("control", m) /\ CtlBegin(m)
    \/ \E m \in RaceMarkets, p \in Prices :
           OtherThreadElsewhere("scheduler", m) /\ SchBegin(m, p)
    \/ SchBalance
    \/ \E t \in Threads : PlaceSellOrder(t)
    \/ \E f \in BOOLEAN, p \in Prices : CtlPoll(f, p)
    \/ \E t \in Threads : CloseCheck(t)
    \/ \E t \in Threads : CloseRecord(t)
    \/ \E t \in Threads : PnlRead(t)
    \/ \E t \in Threads : PnlWrite(t, TRUE)

SpecPnlRace == Init /\ [][NextPnlRace]_vars

\* the control loop with the hourly rebalancing check
NextRebalance ==
    \/ LoopTop
    \/ \E m \in Markets, p \in PriceOutcomes, o \in BOOLEAN, f \in BOOLEAN :
           ManageOne(m, p, o, f, TRUE)
    \/ ManageDone
    \/ ScanNoBuy
    \/ \E m \in Markets, p \in Prices, q \in Qtys : ScanBuy(m, p, q, TRUE)
    \/ \E m \in Markets, h \in BOOLEAN, p \in Prices, o \in BOOLEAN, f \in BOOLEAN :
           ExecuteRebalancing(m, h, p, o, f, TRUE)

SpecRebalance == Init /\ [][NextRebalance]_vars

\* the control loop buying what the AI recommended and selling it later
NextTrack ==
    \/ LoopTop
    \/ \E m \in Markets, p \in PriceOutcomes, o \in BOOLEAN, f \in BOOLEAN :
           ManageOne(m, p, o, f, TRUE)
    \/ ManageDone
    \/ ScanNoBuy
    \/ \E m \in RecMarkets : SaveRecommendation(m)
    \/ \E id \in RecIds, m \in RecMarkets, p \in Prices, q \in Qtys :
           ScanBuyRecommended(id, m, p, q, TRUE)

SpecTrack == Init /\ [][NextTrack]_vars

\* =================================================================
\* Properties
\* =================================================================

RECURSIVE SumSellRows(_, _)
SumSellRows(history, day) ==
    IF history = <<>> THEN 0
    ELSE (IF Head(history).action = "SELL" /\ Head(history).date = day
          THEN Head(history).profit_loss ELSE 0)
         + SumSellRows(Tail(history), day)

C2_DailyPnlIsSumOfSellRows ==
    \A d \in Dates : daily_pnl[d] = SumSellRows(trade_history, d)

\* two SELL rows of one date, both with a non-zero profit_loss
C2_Witness ==
    \E i, j \in 1..Len(trade_history) :
        /\ i < j
        /\ trade_history[i].action = "SELL" /\ trade_history[j].action = "SELL"
        /\ trade_history[i].date = trade_history[j].date
        /\ trade_history[i].profit_loss # 0 /\ trade_history[j].profit_loss # 0

\* C3 (as claimed): a failed account lookup is treated as unknown, never as
\* "no holdings": restore_positions_from_upbit and force_sync_with_upbit run
\* with a failed get_accounts leave every previously open position open and
\* keep it in the snapshot file.
C3_FailedLookupKeepsPositions ==
    [][\A quote \in PriceOutcomes, np \in SUBSET Held, avg \in AvgBuyPrices :
          (\/ RestoreFromUpbit(FALSE, Quotes(quote, np), AvgBuys(avg))
           \/ ForceSync(FALSE, Quotes(quote, np), AvgBuys(avg)))
          => /\ get_open_positions(positions) \subseteq get_open_positions(positions')
             /\ \A m \in get_open_positions(positions) :
                    positions_file'[m].status = "open"]_vars

C5_SnapshotHoldsExactlyOpen ==
    last_call.op \in {"add_position", "close_position"} =>
        \A m \in Markets :
            IF positions[m].status = "open"
            THEN positions_file[m] = positions[m]
            ELSE positions_file[m].status = "none"

\* a close_position call has just closed one position while another is open
C5_Witness ==
    /\ last_call = [op |-> "close_position", ok |-> TRUE]
    /\ \E m \in Markets : positions[m].status = "closed" /\ positions_file[m].status = "none"
    /\ \E m \in Markets : positions[m].status = "open" /\ positions_file[m].status = "open"

\* C6 (as claimed): settings persisted by the Dashboard are the settings the
\* engine's get_current_settings returns from the next control-loop iteration
\* onward: every iteration works with what bot_config.json holds.
C6_LoopUsesPersistedSettings ==
    [][LoopTop => settings' = get_current_settings(config_file)]_vars

C8_BreachAlertEmitted ==
    [][(~is_paused /\ is_paused') => last_notify'.kind = "daily_loss_limit"]_vars

\* C9 (as claimed): every notify_* entry point returns normally, without
\* raising, whether the notifier is unconfigured, configured and delivering,
\* or configured and failing to deliver.
C9_NotifyNeverRaises == last_notify.outcome # "raised"

\* C10 (as claimed): a daily liquidation run with at least one open position
\* in which every price lookup, balance lookup and sell order succeeds closes
\* every position that was open at its start, placing a sell order for each
\* with non-zero holdings, whether or not the notifier is configured.
C10_LiquidationClosesAll ==
    (job_pc = "ended" /\ job_allok /\ job_start # {}) =>
        /\ job_start \subseteq job_closed
        /\ job_closed \subseteq job_sold \cup job_zero

\* C11 (as claimed): for any sequence of start() and stop() calls on the
\* scheduler, whenever the scheduler is running the daily 08:00 liquidation
\* job is registered, so the job runs at the next 08:00 reached while running.
C11_RunningHasJob ==
    /\ sched_running => sched_jobs > 0
    /\ ~sched_missed

\* C12 (as claimed): set(key, value) and update_multiple(map) are
\* all-or-nothing: if persisting fails, the call returns failure and the
\* in-memory configuration equals, key for key, its value before the call,
\* including for keys that were not present before the call.
C12_FailedPersistRestoresMemory ==
    [][(store_last'.op \in {"set", "update_multiple"} /\ ~store_last'.ok
          /\ store_clock' # store_clock)
       => store_config' = store_config]_vars

\* C13 (as claimed): after any sequence of configuration store operations
\* (load, set, update_multiple, reset_to_default) the configuration persisted
\* in the config file passes validate_config with zero violations.
C13_PersistedConfigIsValid ==
    /\ "torn" \notin DOMAIN config_file
    /\ validate_config(Merge(StoreDefault(0), config_file))

\* C14 (as claimed): if a step of force_sync_with_upbit fails after the
\* positions were cleared (a price lookup raising inside
\* restore_positions_from_upbit), then when force_sync_with_upbit returns the
\* ledger's position set equals the pre-sync set and the call reports failure.
C14_FailedForceSyncRestoresBackup ==
    [][\A np \in SUBSET Held, avg \in AvgBuyPrices :
          (/\ ForceSync(TRUE, Quotes(PriceRaises, np), AvgBuys(avg))
           /\ \E m \in Held : Quotes(PriceRaises, np)[m] = PriceRaises)
          => /\ positions' = positions
             /\ ~last_call'.ok]_vars

\* C15 (as claimed): under any interleaving of the control thread and the
\* scheduler thread calling the shared rate limiter, any two exchange calls
\* released by wait_if_needed are released at least 1/8 second apart.
C15_ReleasesSpaced ==
    Len(rl_releases) = 2 => rl_releases[2] - rl_releases[1] >= call_interval

\* C16 (as claimed): a wrapped call whose request keeps failing is attempted
\* exactly 3 times before the failure propagates, for every kind of failure
\* (HTTP 429, any other HTTP error status, any other exception), and stops at
\* the first successful attempt; the order calls issue exactly one request.
C16_ThreeAttemptsThenRaise ==
    \A t \in Threads :
        client[t].pc = "done" =>
            /\ (client[t].kind \in WrappedKinds /\ client[t].result = "raised")
                  => client[t].requests = max_retries
            /\ (client[t].kind \in WrappedKinds /\ client[t].result = "value")
                  => client[t].requests = client[t].attempt + 1
            /\ client[t].kind = "order" => client[t].requests = 1

\* C17 (as claimed): on persistent failure of the underlying request,
\* get_current_price returns an absent value and get_candles returns an empty
\* list; neither raises an exception to its caller.
C17_ReadCallsNeverRaise ==
    \A t \in Threads :
        (client[t].pc = "done" /\ client[t].kind \in WrappedKinds)
            => client[t].result # "raised"

\* C18 (as claimed): the trade history is append-only: under any interleaving
\* of engine appends (BUY/SELL rows) with the Dashboard's reconciliation
\* action, every row already written stays in the file unchanged and the
\* reconciliation only adds SYNC rows.
C18_HistoryAppendOnly ==
    [][/\ Len(trade_history') >= Len(trade_history)
       /\ SubSeq(trade_history', 1, Len(trade_history)) = trade_history
       /\ DashSyncEnd =>
             \A i \in (Len(trade_history) + 1)..Len(trade_history') :
                 trade_history'[i].action = "SYNC"]_vars

\* C19: close_position(market, price) for a market with no open position
\* returns an absent result and changes nothing: no SELL row is appended, the
\* daily-P&L map and the snapshot file are unchanged; in particular a second
\* close_position on an already-closed position adds no realized P&L.
C19_CloseWithoutOpenPositionIsNoOp ==
    [][\A m \in Markets, p \in Prices :
          (ClosePosition(m, p) /\ positions[m].status # "open") =>
              /\ ~last_call'.ok
              /\ positions' = positions
              /\ trade_history' = trade_history
              /\ daily_pnl' = daily_pnl
              /\ positions_file' = positions_file]_vars

\* a close was refused while some position closed earlier today had realized
\* a nonzero P&L, and no position is open (so the refused market was closed
\* or never held)
C19_Witness ==
    /\ last_call = [op |-> "close_position", ok |-> FALSE]
    /\ OpenCount = 0
    /\ \E m \in Markets : positions[m].status = "closed"
    /\ get_daily_pnl(daily_pnl, today) # 0

\* limits the daily P&L can fall below, hit exactly, or stay above
LossLimits == {-12, -6, -3}

\* C20: for a fixed negative limit and any sequence of closes on one day,
\* check_daily_loss_limit(limit) is true iff the day's cumulative realized
\* P&L (the sum of the day's SELL rows) is <= limit, whatever the order of
\* the closes and whatever positions are open.
C20_LossLimitIffRealizedAtOrBelow ==
    \A lim \in LossLimits :
        check_daily_loss_limit(daily_pnl, today, lim)
            <=> (SumSellRows(trade_history, today) <= lim)

\* the day's realized P&L sits exactly on a limit after two closes, one at a
\* gain and one at a loss in either order, while a position is open
C20_Witness ==
    /\ get_daily_pnl(daily_pnl, today) \in LossLimits
    /\ check_daily_loss_limit(daily_pnl, today, get_daily_pnl(daily_pnl, today))
    /\ OpenCount > 0
    /\ \E i \in 1..Len(trade_history) :
          /\ trade_history[i].action = "SELL" /\ trade_history[i].date = today
          /\ trade_history[i].profit_loss < 0

\* C21: after start_all() returns, either both the bot process and the
\* dashboard process were started and is_running is true, or is_running is
\* false and neither child process is left running.
C21_StartAllBothOrNeither ==
    [][\A ok \in BOOLEAN :
          StartAllDashboard(ok) =>
              \/ /\ mgr_is_running'
                 /\ bot_process' \in {"alive", "dead"}
                 /\ dashboard_process' = "alive"
              \/ /\ ~mgr_is_running'
                 /\ ~child_alive(bot_process')
                 /\ ~child_alive(dashboard_process')]_vars

\* start_all has returned after one child started and the other did not
C21_Witness ==
    /\ mgr_pc = "exited"
    /\ spawn_fails = 1
    /\ child_deaths = 0
    /\ ~mgr_is_running
    /\ "dead" \in {bot_process, dashboard_process}

\* C22: while the supervisor is monitoring, whenever the bot or the dashboard
\* has died the supervisor eventually starts a new instance of it, and
\* monitoring never stops because a child died.
C22_DeadChildRespawned ==
    /\ (mgr_is_running /\ bot_process = "dead")
           ~> (bot_process = "alive" \/ ~mgr_is_running)
    /\ (mgr_is_running /\ dashboard_process = "dead")
           ~> (dashboard_process = "alive" \/ ~mgr_is_running)
    /\ [][\A child \in {"bot", "dashboard"} :
             ChildDies(child) => mgr_is_running' = mgr_is_running]_vars

\* both children have died and been started again while monitoring goes on
C22_Witness ==
    /\ mgr_is_running
    /\ child_deaths = MaxDeaths
    /\ mgr_restarts = MaxDeaths
    /\ child_alive(bot_process) /\ child_alive(dashboard_process)

\* C23: a recommendation row right after save_recommendation has
\* executed = false and actual_return absent; after
\* update_recommendation_result(id, execPrice) it has executed = true,
\* execution_price = execPrice and actual_return still absent; after a later
\* update_recommendation_result with an exit price it has
\* actual_return = (exitPrice - execPrice) / execPrice * 100 and
\* success = (actual_return > 0).
C23_RecommendationLifecycle ==
    [][/\ \A m \in RecMarkets :
             SaveRecommendation(m) =>
                 /\ ai_rows'[Len(ai_rows')].executed = 0
                 /\ ai_rows'[Len(ai_rows')].actual_return = None
       /\ \A id \in 1..Len(ai_rows), ep \in ExecPrices :
             (UpdateRecommendationResult(id, ep, None) /\ ai_rows[id].actual_return = None) =>
                 /\ ai_rows'[id].executed = 1
                 /\ ai_rows'[id].execution_price = ep
                 /\ ai_rows'[id].actual_return = None
       /\ \A id \in 1..Len(ai_rows), ep \in ExecPrices, xp \in ExitPrices :
             (UpdateRecommendationResult(id, ep, xp) /\ ai_rows[id].execution_price = ep) =>
                 /\ ai_rows'[id].actual_return * ep = (xp - ep) * 100
                 /\ ai_rows'[id].success = IF xp > ep THEN 1 ELSE 0
                 /\ ai_rows'[id].executed = 1
                 /\ ai_rows'[id].execution_price = ep]_vars

\* a row went through save, execution and exit and came out with a return
\* of exactly zero, which is not a success
C23_Witness ==
    /\ Len(ai_rows) = MaxRecs
    /\ ai_rows[1] = NewRecommendation(ai_rows[1].market)
    /\ ai_rows[MaxRecs].executed = 1
    /\ ai_rows[MaxRecs].exit_price = ai_rows[MaxRecs].execution_price
    /\ ai_rows[MaxRecs].actual_return = 0
    /\ ai_rows[MaxRecs].success = 0

C25_ValidateConfigRanges ==
    /\ ("max_positions" \in validated.errors)
           <=> (validated.config["max_positions"] \notin 1..10)
    /\ ("profit_rate" \in validated.errors)
           <=> (validated.config["profit_rate"] \notin 1..RateDen)
    /\ ("loss_rate" \in validated.errors)
           <=> (validated.config["loss_rate"] \notin (-RateDen)..(-1))
    /\ (validated.config["min_balance_for_buy"] > validated.config["investment_amount"])
           => validated.errors # {}
    /\ (/\ validated.config["max_positions"] \in 1..10
        /\ validated.config["profit_rate"] \in 1..RateDen
        /\ validated.config["loss_rate"] \in (-RateDen)..(-1)
        /\ validated.config["min_balance_for_buy"] <= validated.config["investment_amount"])
           => validated.errors = {}
    /\ validate_config_errors(Merge(StoreDefault(0), "max_positions" :> 3)) = {}

\* a configuration at the upper limits of all three ranges was validated and
\* accepted
C25_Witness ==
    /\ store_last.op = "save_settings"
    /\ validated.config["max_positions"] = 10
    /\ validated.config["profit_rate"] = RateDen
    /\ validated.config["loss_rate"] = -RateDen
    /\ validated.errors = {}

\* how many differences of one type the analysis reported for one market
DifferenceCount(type, m) ==
    Cardinality({i \in 1..Len(sync_status.result.differences) :
                    /\ sync_status.result.differences[i].type = type
                    /\ sync_status.result.differences[i].market = m})

C27_FilledBuyIsRecorded ==
    [][\A m \in Markets, p \in Prices, q \in Qtys, d \in BOOLEAN :
          ScanBuy(m, p, q, d) =>
              /\ last_call' = [op |-> "add_position", ok |-> TRUE]
              /\ positions'[m].status = "open"
              /\ positions'[m].quantity = q
              /\ positions'[m].entry_price = p]_vars

\* C28 (as claimed): in stagnation rebalancing with a replacement opportunity
\* found, a buy into the new opportunity is attempted if and only if the sell
\* of the old position succeeded.
C28_RebalanceBuysIffSold ==
    [][\A m \in Markets, p \in Prices, o \in BOOLEAN, f \in BOOLEAN, d \in BOOLEAN :
          ExecuteRebalancing(m, TRUE, p, o, f, d) =>
              (rebalance'.buy_attempted <=> rebalance'.sold)]_vars

\* C29 (as claimed): for a recommendation whose market the engine bought
\* (execution half recorded), when the engine later sells that market and the
\* sell fills, the row's exit price, actual return and success flag become
\* non-absent.
C29_ExitHalfFilledOnSell ==
    [][\A m \in RecMarkets, p \in Prices, o \in BOOLEAN, f \in BOOLEAN, d \in BOOLEAN :
          (ManageOne(m, p, o, f, d) /\ positions[m].status = "open"
                                     /\ positions'[m].status = "closed") =>
              \A i \in 1..Len(ai_rows) :
                  (ai_rows[i].market = m /\ ai_rows[i].executed = 1
                                         /\ ai_rows[i].actual_return = None) =>
                      /\ ai_rows'[i].exit_price # None
                      /\ ai_rows'[i].actual_return # None
                      /\ ai_rows'[i].success # None]_vars

RowsOf(market, action) ==
    {i \in 1..Len(trade_history) : /\ trade_history[i].market = market
                                   /\ trade_history[i].action = action}

\* C30 (as claimed): under any interleaving of the control thread and the
\* scheduler thread acting on the same open position, at most one sell order
\* is placed for it and it is closed at most once: a market never has more
\* accepted sell orders, nor more SELL rows, than it has BUY rows.
C30_OneOrderOneCloseUnderInterleaving ==
    \A m \in Markets :
        /\ sell_orders[m] <= Cardinality(RowsOf(m, "BUY"))
        /\ Cardinality(RowsOf(m, "SELL")) <= Cardinality(RowsOf(m, "BUY"))

\* C31 (as claimed): in every reachable ledger state, whatever sequence of
\* add_position, close_position, restores and syncs led to it, the number of
\* open positions is at most max_positions.
C31_OpenPositionsWithinCap == Cardinality(get_open_positions(positions)) <= max_positions

\* C32 (as claimed): when the control thread and the scheduler thread close
\* two different positions concurrently, no realized P&L is lost: once both
\* closes are over, the daily P&L of the date equals the sum of profit_loss
\* over the date's SELL rows.
C32_NoLostPnlUpdate ==
    (\A t \in Threads : thr[t].pc = "idle") =>
        daily_pnl[today] = SumSellRows(trade_history, today)

\* C33 (as claimed): after the Dashboard's reconciliation has rewritten the
\* snapshot file, an add_position or close_position of the running engine on
\* some other market does not remove or revert the reconciled entries: every
\* other market in the snapshot is still there with the same quantity.
C33_EngineKeepsReconciledEntries ==
    [][\A m \in Markets :
          ((\E p \in Prices, q \in Qtys : Bought(m, p, q))
              \/ (\E p \in Prices : ClosePosition(m, p))) =>
             \A n \in Markets \ {m} :
                 positions_file[n].status = "open" =>
                     /\ positions_file'[n].status = "open"
                     /\ positions_file'[n].quantity = positions_file[n].quantity]_vars

\* C34 (as claimed): in the scan with the AI enabled and more than one
\* candidate, the market bought is the AI's pick when the pick is one of the
\* first 5 rank-ordered candidates, its confidence is at least the threshold
\* and its risk label is not HIGH; in every other case it is the top-volume
\* candidate.
C34_PickAcceptedIffAmongFirstFive ==
    (scan.bought # "" /\ scan.ai_enabled /\ ~scan.ai_raises /\ Len(scan.candidates) > 1) =>
        scan.bought =
            IF /\ \E i \in 1..Len(ai_candidates(scan.candidates)) :
                      scan.candidates[i] = scan.recommended_coin
               /\ scan.confidence >= scan.confidence_threshold
               /\ scan.risk_level # "HIGH"
            THEN scan.recommended_coin
            ELSE scan.candidates[1]

\* C35 (as claimed): every buy order placed with AI sizing has a notional
\* amount N with 10,000 <= N <= 80% of the balance read for that buy, for
\* every balance that passes the minimum-balance precondition.
C35_AiSizedOrderWithinClamp ==
    sizing.ordered =>
        /\ sizing.investment_amount >= MinOrderAmount * AmountScale
        /\ sizing.investment_amount <= sizing.krw_balance * 8

\* C36 (as claimed): for any sequence of scheduler start() and stop() calls
\* with arbitrary timing, at most one scheduler background loop is active at
\* any time.
C36_AtMostOneSchedulerLoop == sched_threads <= 1

C38_ReconciledIsSynced ==
    "file" \in DOMAIN sync_status =>
        /\ sync_status.result.is_synced
        /\ sync_status.result.total_differences = 0

\* C39 (as claimed): reconciling the ledger against the exchange
\* (restore_positions_from_upbit at engine start, or force_sync_with_upbit)
\* leaves the entry time of every position that was already open and is still
\* held on the exchange unchanged.
C39_ReconcileKeepsEntryTime ==
    [][\A quote \in Prices, avg \in AvgBuyPrices :
          (\/ RestoreFromUpbit(TRUE, Quotes(quote, {}), AvgBuys(avg))
           \/ ForceSync(TRUE, Quotes(quote, {}), AvgBuys(avg))) =>
             \A m \in Markets :
                 (positions[m].status = "open" /\ balance[m] > 0
                                               /\ positions'[m].status = "open") =>
                     positions'[m].entry_time = positions[m].entry_time]_vars
====
